---- MODULE Spec2Model ----
(***************************************************************************)
(* DAX governance core: the Loop Enforcer with its belief states           *)
(* (mcp/src/loop-enforcer.ts) and the pipeline executor                    *)
(* DAXGovernanceCore.runGovernance / processLayer (mcp/src/dax-core.ts).   *)
(*                                                                         *)
(* Texts.  A JavaScript string is modelled by the sequence of its          *)
(* whitespace-separated pieces, exactly what text.split(/\s+/) returns:    *)
(* "a b" is <<"a","b">>, the empty string is <<"">>, and a leading or a     *)
(* trailing run of whitespace shows as an empty first or last piece        *)
(* (" a" is <<"","a">>).  Keyword and phrase tests are made piece by piece.*)
(*                                                                         *)
(* Numbers.  Beliefs and thresholds are exact rationals held as integers   *)
(* in units of 1/Scale, so that every delta of updateBeliefs is a whole    *)
(* number of units; IEEE rounding of the JavaScript doubles is not         *)
(* modelled.  The timestamp of a FailureEvent (Date.now()) is left out.    *)
(***************************************************************************)
EXTENDS Integers, Sequences, FiniteSets, TLC

\* ------------------------------------------------------------------ bounds

\* A layer state takes enforce calls with any candidate while it has had fewer
\* belief updates than this.
MaxUpdates == 3

\* Beyond MaxUpdates a layer state takes only repetitions of the previous call's
\* candidate, while it has had fewer belief updates than this.
MaxRepeat == 15

\* Belief updates the layer states of the test harness hold between them.
MaxHarnessUpdates == 5

\* Writes of beliefs into a state that getLoopState returned, in one behaviour.
MaxWrites == 1

\* Calls of enableMysticalMode and disableMysticalMode in one behaviour.
MaxToggles == 2

\* Pipeline runs started in one behaviour.
MaxRuns == 2

\* External calls answered (returned or failed) in a behaviour.
MaxCalls == 4

\* ------------------------------------------------------------------- texts

Last(t) == t[Len(t)]

Front(t) == SubSeq(t, 1, Len(t) - 1)

EmptyText == <<"">>

\* a + b of two strings.
Concat(a, b) ==
  IF Last(a) = "" /\ b[1] = ""
    THEN IF Len(a) = 1 THEN b
         ELSE IF Len(b) = 1 THEN a
         ELSE Front(a) \o Tail(b)
    ELSE Front(a) \o <<Last(a) \o b[1]>> \o Tail(b)

\* String.prototype.trim
Trim(t) ==
  LET a == IF Len(t) > 1 /\ t[1] = "" THEN Tail(t) ELSE t
  IN  IF Len(a) > 1 /\ Last(a) = "" THEN Front(a) ELSE a

\* text.split(/\s+/).length
WordCount(t) == Len(t)

\* haystack.includes(needle), decided on whole pieces: the pieces of the needle
\* occur in a row in the haystack, with whitespace where the needle has it.
Includes(h, n) ==
  LET lead  == Len(n) > 1 /\ n[1] = ""
      a     == IF lead THEN Tail(n) ELSE n
      trail == Len(a) > 1 /\ Last(a) = ""
      core  == IF trail THEN Front(a) ELSE a
      k     == Len(core)
  IN  IF n = EmptyText THEN TRUE
      ELSE IF core = EmptyText THEN Len(h) > 1
      ELSE \E i \in 1..(Len(h) - k + 1) :
             /\ h[i] = core[1]
             /\ SubSeq(h, i, i + k - 1) = core
             /\ lead => i > 1
             /\ trail => i + k - 1 < Len(h)

\* toLowerCase of one piece, for the capitalised pieces the model's texts use.
Lower(tok) ==
  CASE tok = "I" -> "i"
    [] tok = "Could" -> "could"
    [] tok = "Please" -> "please"
    [] tok = "Algorithm" -> "algorithm"
    [] tok = "System" -> "system"
    [] OTHER -> tok

LowerText(t) == [i \in 1..Len(t) |-> Lower(t[i])]

\* ------------------------------------------------------ enforcer constants

Scale == 30000

maxIterations == 3

\* characterThreshold 0.7, in units of 1/Scale
characterThreshold == 21000

technoKeywords ==
  { "algorithm", "protocol", "matrix", "circuit", "binary", "quantum",
    "neural", "synthetic", "cybernetic", "nanotech", "bio-digital",
    "encryption", "firewall", "kernel", "runtime", "compiler",
    "blockchain", "decentralized", "autonomous", "recursive" }

MysticalVocabulary ==
  { "quantum", "nexus", "void", "entropy", "singularity", "consciousness",
    "transcend", "ether", "cosmic", "astral", "voidcraft", "technomancy",
    "reality", "paradox", "dimension", "frequency", "vibration", "resonance",
    "arcane", "esoteric", "occult", "alchemical", "hermetic", "gnostic" }

genericPatterns ==
  { <<"please", "provide">>, <<"could", "you", "please">>, <<"i", "would", "like">>,
    <<"can", "you", "help", "me">>, <<"i", "need", "to">>, <<"please", "assist">>,
    <<"would", "you", "mind">>, <<"i", "was", "wondering">>, <<"could", "you", "explain">>,
    <<"in", "order", "to">>, <<"for", "the", "purpose", "of">>, <<"with", "regard", "to">> }

StandardThresholds == [coherence |-> 18000, reliability |-> 21000, hallucinationRisk |-> 12000]

MysticalThresholds == [coherence |-> 24000, reliability |-> 22500, hallucinationRisk |-> 9000]

\* The keywords a lower-cased piece contains as substrings: the piece itself when
\* it is a keyword, and the keywords inside the longer pieces the model's texts use.
KeywordsIn(tok) ==
  CASE tok = "protocol:" -> {"protocol"}
    [] tok = "{\"output\":\"kernel\",\"reason\":\"runtime\"}" -> {"kernel", "runtime"}
    [] tok = "quantum-kernel" -> {"quantum", "kernel"}
    [] tok = "quantum-kernel-matrix-binary-neural" ->
         {"quantum", "kernel", "matrix", "binary", "neural"}
    [] OTHER -> {tok}

\* keywords.filter(keyword => text.toLowerCase().includes(keyword)).length
KeywordHits(keywords, t) ==
  Cardinality(keywords \cap UNION {KeywordsIn(Lower(t[i])) : i \in 1..Len(t)})

\* ------------------------------------------------------- enforcer functions

Min(a, b) == IF a < b THEN a ELSE b

Max(a, b) == IF a > b THEN a ELSE b

\* An update that is not clamped.
clamp01Unbounded(x) == x

\* Math.max(0, Math.min(1, value))
clamp01(x) == Max(0, Min(Scale, x))

\* (mysticalCount + technoCount) / Math.max(words, 1), as numerator and denominator
calculateTechnoMysticalScore(cfg, t) ==
  [ num |-> KeywordHits(cfg.mysticalKeywords, t) + KeywordHits(technoKeywords, t),
    den |-> Max(WordCount(t), 1) ]

\* score < x, for x in units of 1/Scale
ScoreBelow(score, x) == score.num * Scale < x * score.den

\* the number of generic patterns found; detectGeneric is this over the list's length
GenericMatches(t) ==
  LET lower == LowerText(t)
  IN  Cardinality({p \in genericPatterns : Includes(lower, p)})

\* detectGeneric(text) > tenths / 10
GenericAbove(t, tenths) == GenericMatches(t) * 10 > tenths * Cardinality(genericPatterns)

analyzePattern(t) ==
  IF GenericMatches(t) > 0
    THEN "GENERIC_REQUEST_PATTERN" ELSE "DIRECT_INTENT_PATTERN"

analyzeCharacter(cfg, t) ==
  LET mystical == KeywordHits(cfg.mysticalKeywords, t)
      techno   == KeywordHits(technoKeywords, t)
  IN  IF mystical > 0 /\ techno > 0 THEN "TECHNO_MYSTICAL"
      ELSE IF mystical > 0 THEN "MYSTICAL_ONLY"
      ELSE IF techno > 0 THEN "TECHNO_ONLY"
      ELSE "GENERIC"

assessCurrentState(cfg, input, output) ==
  IF analyzeCharacter(cfg, input) = "GENERIC" /\ analyzeCharacter(cfg, output) = "GENERIC"
    THEN "DEGRADED_STATE"
  ELSE IF analyzeCharacter(cfg, output) = "TECHNO_MYSTICAL" THEN "OPTIMAL_STATE"
  ELSE "TRANSITIONING_STATE"

\* The observation string, as the values it is formatted from.
performObservation(cfg, layerName, input, output) ==
  [ layerName |-> layerName,
    inputPattern |-> analyzePattern(input),
    outputCharacter |-> analyzeCharacter(cfg, output),
    genericDetection |-> GenericMatches(output),
    score |-> calculateTechnoMysticalScore(cfg, output),
    currentState |-> assessCurrentState(cfg, input, output) ]

\* The self-question string: the observation under a fixed list of questions.
performSelfQuestion(layerName, observation) ==
  [ layerName |-> layerName, observation |-> observation ]

layerInfusions(layerName) ==
  CASE layerName = "DA-13" -> <<"As", "the", "Sentinel,", "I", "verify", "truth", "constraints:", "">>
    [] layerName = "DA-12" -> <<"The", "Chancellor", "ensures", "policy", "alignment:", "">>
    [] layerName = "DA-11" -> <<"From", "the", "Custodian's", "risk", "assessment:", "">>
    [] layerName = "DA-10" -> <<"The", "Registrar", "selects", "mandate", "template:", "">>
    [] layerName = "DA-9" -> <<"Through", "the", "Verifier's", "policy", "validation:", "">>
    [] layerName = "DA-8" -> <<"The", "Auditor", "documents", "evidence", "trail:", "">>
    [] layerName = "DA-7" -> <<"The", "Steward", "determines", "human", "checkpoint", "requirements:", "">>
    [] layerName = "DA-6" -> <<"The", "Conductor", "orchestrates", "workflow:", "">>
    [] layerName = "DA-5" -> <<"The", "Router", "maps", "execution", "pathways:", "">>
    [] layerName = "DA-4" -> <<"The", "Observer", "monitors", "telemetry:", "">>
    [] layerName = "DA-3" -> <<"The", "Sentry", "detects", "anomalies:", "">>
    [] layerName = "DA-2" -> <<"The", "Inspector", "audits", "structure:", "">>
    [] layerName = "DA-1" -> <<"The", "Executor", "emits", "final", "action:", "">>
    [] layerName = "DA-X" -> <<"The", "Anchor", "maintains", "system", "stability:", "">>
    [] OTHER -> <<"System", "analysis:", "">>

\* technoElement is the keyword Math.random() picks.
infuseTechnoMysticalCharacter(cfg, layerName, output, technoElement) ==
  LET infused == Concat(layerInfusions(layerName), output)
  IN  IF ScoreBelow(calculateTechnoMysticalScore(cfg, infused), characterThreshold)
        THEN Concat(infused, <<"", "System", "protocol:", technoElement, "validation", "complete.">>)
        ELSE infused

\* A reconciliation that infuses every text.
performReconciliationAlways(cfg, layerName, output, technoElement) ==
  infuseTechnoMysticalCharacter(cfg, layerName, output, technoElement)

performReconciliation(cfg, layerName, output, technoElement) ==
  IF \/ ScoreBelow(calculateTechnoMysticalScore(cfg, output), characterThreshold)
     \/ GenericAbove(output, 3)
    THEN infuseTechnoMysticalCharacter(cfg, layerName, output, technoElement)
    ELSE output

meetsCharacterThreshold(cfg, t) ==
  /\ ~ScoreBelow(calculateTechnoMysticalScore(cfg, t), characterThreshold)
  /\ ~GenericAbove(t, 2)

\* A severity that never reaches high.
severityForFlat(code, beliefs) ==
  IF code = "ITERATION_OVERFLOW" THEN "medium" ELSE "low"

severityFor(code, beliefs) ==
  IF code = "HALLUCINATION_RISK" /\ beliefs.hallucinationRisk * 10 > 8 * Scale THEN "high"
  ELSE IF code = "ITERATION_OVERFLOW" THEN "medium"
  ELSE IF code = "COHERENCE_DECAY" /\ beliefs.coherence * 10 < 5 * Scale THEN "high"
  ELSE "low"

\* A log that keeps the newest event only.
logFailureLatest(failures, beliefs, code) ==
  <<[code |-> code, severity |-> severityFor(code, beliefs)]>>

logFailure(failures, beliefs, code) ==
  Append(failures, [code |-> code, severity |-> severityFor(code, beliefs)])

\* coherence + coherenceDelta, clamped
NewCoherence(cfg, beliefs, score) ==
  clamp01(beliefs.coherence
          + (IF ~ScoreBelow(score, cfg.beliefThresholds.coherence)
               THEN (3 * Scale) \div 100 ELSE 0 - (6 * Scale) \div 100))

\* A reliability that no overflow lowers.
NewReliabilitySteady(beliefs, iterationCount) ==
  clamp01(beliefs.reliability + Scale \div 100)

\* A reliability that overflow does not take below 0.1.
NewReliabilityFloor(beliefs, iterationCount) ==
  IF iterationCount > maxIterations
    THEN Max(Min(beliefs.reliability, Scale \div 10), beliefs.reliability - (8 * Scale) \div 100)
    ELSE clamp01(beliefs.reliability + Scale \div 100)

\* reliability + reliabilityDelta, clamped
NewReliability(beliefs, iterationCount) ==
  clamp01(beliefs.reliability
          + (IF iterationCount > maxIterations
               THEN 0 - (8 * Scale) \div 100 ELSE Scale \div 100))

\* A risk that no update moves.
NewRiskFlat(beliefs, coherence, reliability, matches) == beliefs.hallucinationRisk

\* A risk computed from the coherence the update started with.
NewRiskPriorCoherence(beliefs, coherence, reliability, matches) ==
  LET genericPart == (matches * 8 * Scale) \div (100 * Cardinality(genericPatterns))
      lowCoherencePenalty == ((Scale - beliefs.coherence) * 6) \div 100
      recovery == IF beliefs.coherence * 100 > 85 * Scale /\ reliability * 100 > 85 * Scale
                    THEN (3 * Scale) \div 100 ELSE 0
  IN  clamp01(beliefs.hallucinationRisk + genericPart + lowCoherencePenalty - recovery)

\* A risk that recovers on strong coherence alone.
NewRiskCoherenceRecovery(beliefs, coherence, reliability, matches) ==
  LET genericPart == (matches * 8 * Scale) \div (100 * Cardinality(genericPatterns))
      lowCoherencePenalty == ((Scale - coherence) * 6) \div 100
      recovery == IF coherence * 100 > 85 * Scale THEN (3 * Scale) \div 100 ELSE 0
  IN  clamp01(beliefs.hallucinationRisk + genericPart + lowCoherencePenalty - recovery)

\* hallucinationRisk + riskDelta - recovery, clamped; coherence and reliability
\* are the values just updated
NewRisk(beliefs, coherence, reliability, matches) ==
  LET genericPart == (matches * 8 * Scale) \div (100 * Cardinality(genericPatterns))
      lowCoherencePenalty == ((Scale - coherence) * 6) \div 100
      recovery == IF coherence * 100 > 85 * Scale /\ reliability * 100 > 85 * Scale
                    THEN (3 * Scale) \div 100 ELSE 0
  IN  clamp01(beliefs.hallucinationRisk + genericPart + lowCoherencePenalty - recovery)

\* An update whose reliability penalty also counts the failures logged so far.
updateBeliefsByLog(cfg, state, output) ==
  LET score == calculateTechnoMysticalScore(cfg, output)
      coherence == NewCoherence(cfg, state.beliefs, score)
      reliability == NewReliability(state.beliefs, state.iterationCount + Len(state.failures))
      risk == NewRisk(state.beliefs, coherence, reliability, GenericMatches(output))
      b == [coherence |-> coherence, reliability |-> reliability, hallucinationRisk |-> risk]
      f1 == IF ScoreBelow(score, cfg.beliefThresholds.coherence)
              THEN logFailure(state.failures, b, "COHERENCE_DECAY") ELSE state.failures
      f2 == IF state.iterationCount > maxIterations
              THEN logFailure(f1, b, "ITERATION_OVERFLOW") ELSE f1
      f3 == IF reliability < cfg.beliefThresholds.reliability
              THEN logFailure(f2, b, "RELIABILITY_DEGRADATION") ELSE f2
      f4 == IF risk > cfg.beliefThresholds.hallucinationRisk
              THEN logFailure(f3, b, "HALLUCINATION_RISK") ELSE f3
  IN  [ state EXCEPT !.lastCharacterCheck = [num |-> Min(score.num, score.den), den |-> score.den],
                     !.beliefs = b,
                     !.failures = f4 ]

updateBeliefs(cfg, state, output) ==
  LET score == calculateTechnoMysticalScore(cfg, output)
      coherence == NewCoherence(cfg, state.beliefs, score)
      reliability == NewReliability(state.beliefs, state.iterationCount)
      risk == NewRisk(state.beliefs, coherence, reliability, GenericMatches(output))
      b == [coherence |-> coherence, reliability |-> reliability, hallucinationRisk |-> risk]
      f1 == IF ScoreBelow(score, cfg.beliefThresholds.coherence)
              THEN logFailure(state.failures, b, "COHERENCE_DECAY") ELSE state.failures
      f2 == IF state.iterationCount > maxIterations
              THEN logFailure(f1, b, "ITERATION_OVERFLOW") ELSE f1
      f3 == IF reliability < cfg.beliefThresholds.reliability
              THEN logFailure(f2, b, "RELIABILITY_DEGRADATION") ELSE f2
      f4 == IF risk > cfg.beliefThresholds.hallucinationRisk
              THEN logFailure(f3, b, "HALLUCINATION_RISK") ELSE f3
  IN  [ state EXCEPT !.lastCharacterCheck = [num |-> Min(score.num, score.den), den |-> score.den],
                     !.beliefs = b,
                     !.failures = f4 ]

\* x.toFixed(2)
toFixed2(x) ==
  LET h == (x * 100 + Scale \div 2) \div Scale
  IN  IF h >= 100 THEN "1.00"
      ELSE IF h < 10 THEN "0.0" \o ToString(h)
      ELSE "0." \o ToString(h)

vetoOutput(layerName, beliefs) ==
  Concat(<<layerName>>,
    Concat(<<"", "VETO", "ACTIVATED:",
             "HALUCINATION_RISK_EXCEEDED:", toFixed2(beliefs.hallucinationRisk),
             "COHERENCE_DEGRADED:", toFixed2(beliefs.coherence),
             "RELIABILITY_COMPROMISED:", toFixed2(beliefs.reliability),
             "OUTPUT", "REJECTED:", "High", "risk", "of", "unreliable", "content",
             "RECOMMENDATION:", "Require", "tool", "verification", "or", "human", "oversight",
             "SYSTEM", "STATE:", "Degraded", "-", "belief", "thresholds", "exceeded", "">>,
      Concat(<<layerName>>,
             <<"", "protocol", "override:", "Refuse", "to", "emit", "potentially",
               "unreliable", "output.">>)))

\* A veto rule that looks at the risk only.
maybeVetoRiskOnly(cfg, beliefs) ==
  beliefs.hallucinationRisk > cfg.beliefThresholds.hallucinationRisk

\* A veto rule that also refuses on low reliability.
maybeVetoOnReliability(cfg, beliefs) ==
  \/ beliefs.hallucinationRisk > cfg.beliefThresholds.hallucinationRisk
  \/ beliefs.coherence * 100 < cfg.beliefThresholds.coherence * 75
  \/ beliefs.reliability < cfg.beliefThresholds.reliability

\* The condition under which maybeVeto returns a refusal instead of null.
maybeVeto(cfg, beliefs) ==
  \/ beliefs.hallucinationRisk > cfg.beliefThresholds.hallucinationRisk
  \/ beliefs.coherence * 100 < cfg.beliefThresholds.coherence * 75

\* A new state that starts from stronger beliefs.
NewLoopStateWarm(layerId) ==
  [ layerId |-> layerId,
    iterationCount |-> 0,
    lastCharacterCheck |-> [num |-> 7, den |-> 10],
    beliefs |-> [ coherence |-> (8 * Scale) \div 10,
                  reliability |-> (7 * Scale) \div 10,
                  hallucinationRisk |-> (2 * Scale) \div 10 ],
    failures |-> <<>>,
    observation |-> [layerName |-> ""],
    selfQuestion |-> [layerName |-> ""],
    reconciliation |-> EmptyText ]

NewLoopState(layerId) ==
  [ layerId |-> layerId,
    iterationCount |-> 0,
    lastCharacterCheck |-> [num |-> 7, den |-> 10],
    beliefs |-> [ coherence |-> (7 * Scale) \div 10,
                  reliability |-> (7 * Scale) \div 10,
                  hallucinationRisk |-> (2 * Scale) \div 10 ],
    failures |-> <<>>,
    observation |-> [layerName |-> ""],
    selfQuestion |-> [layerName |-> ""],
    reconciliation |-> EmptyText ]

\* ------------------------------------------------------------------- state

VARIABLES
  mysticalMode,   \* LoopEnforcer.mysticalMode
  config,         \* LoopEnforcer.config: the fields the mode switch rewrites
  loopStates,     \* LoopEnforcer.loopStates: layer id -> LoopState
  enf,            \* the enforceLoop call in progress, or the last one made
  runs,           \* the runGovernance calls: locals, position and outcome
  started,        \* runGovernance calls made so far
  answered,       \* external calls that have returned or failed so far
  core,           \* the DAXGovernanceCore: whether its constructor returned, and this.layers
  toggles,        \* mode switches made so far
  writes          \* writes of beliefs by a holder of a state made so far

vars == <<mysticalMode, config, loopStates, enf, runs, started, answered, core, toggles, writes>>

\* ------------------------------------------------------------------ inputs

\* Keywords the random draw of infuseTechnoMysticalCharacter may return.
Draws == {"protocol", "kernel"}

\* The same for the calls a pipeline run makes.
RunDraws == {"kernel"}

GenericReply == <<"I", "would", "be", "happy", "to", "help", "you", "with", "your", "request">>

VeryGenericReply ==
  <<"please", "provide", "could", "you", "please", "i", "would", "like", "to", "please", "assist">>

TechnicalReply == <<"quantum-kernel">>

\* Layer ids and names enforceLoop is called with directly.
DirectLayers == {<<"13", "DA-13">>}

DirectInputs == {<<"help", "me">>}

DirectCandidates == {GenericReply, VeryGenericReply, TechnicalReply}

\* The technical output of Test E.
RecoveryReply ==
  <<"Algorithm", "protocol", "validation", "complete.", "System", "integrity", "verified.">>

\* A text dense in keywords that holds three generic patterns.
DenseReply ==
  <<"quantum-kernel-matrix-binary-neural", "could", "you", "please", "provide",
    "please", "assist">>

\* The layer ids and names the tests call enforceLoop with.
HarnessLayers == {<<"causal-legit", "DA-13">>}

HarnessCandidates == {TechnicalReply, RecoveryReply, DenseReply}

\* The beliefs the tests write into the state getLoopState returns: the high
\* risk state of the veto test and the strong state of Test E.
BeliefPresets ==
  { [ coherence |-> (3 * Scale) \div 10, reliability |-> (4 * Scale) \div 10,
      hallucinationRisk |-> (8 * Scale) \div 10 ],
    [ coherence |-> (9 * Scale) \div 10, reliability |-> (9 * Scale) \div 10,
      hallucinationRisk |-> (15 * Scale) \div 100 ] }

\* ------------------------------------------------------------ the enforcer

IdleCall ==
  [ status |-> "idle", caller |-> 0, layerId |-> "", layerName |-> "",
    input |-> EmptyText, candidate |-> EmptyText, currentOutput |-> EmptyText,
    iterations |-> 0, vetoed |-> FALSE, result |-> EmptyText ]

getOrCreateLoopState(layerId) ==
  IF layerId \in DOMAIN loopStates THEN loopStates[layerId] ELSE NewLoopState(layerId)

\* May a new enforceLoop call for layerId be taken within the bounds?
WithinUpdates(layerId, candidate) ==
  layerId \in DOMAIN loopStates =>
    \/ loopStates[layerId].iterationCount < MaxUpdates
    \/ /\ loopStates[layerId].iterationCount < MaxRepeat
       /\ enf.layerId = layerId
       /\ enf.candidate = candidate

NewCall(caller, layerId, layerName, input, currentOutput) ==
  [ status |-> "running", caller |-> caller, layerId |-> layerId, layerName |-> layerName,
    input |-> input, candidate |-> currentOutput, currentOutput |-> currentOutput,
    iterations |-> 0, vetoed |-> FALSE, result |-> EmptyText ]

\* An invocation that counts the iterations of its own call only.
IterationFromPerCall(state, call, technoElement) ==
  LET observation == performObservation(config, call.layerName, call.input, call.currentOutput)
      selfQuestion == performSelfQuestion(call.layerName, observation)
      reconciliation ==
        performReconciliation(config, call.layerName, call.currentOutput, technoElement)
      seen == [ state EXCEPT !.observation = observation,
                             !.selfQuestion = selfQuestion,
                             !.reconciliation = reconciliation,
                             !.iterationCount = call.iterations ]
      updated == updateBeliefs(config, seen, reconciliation)
  IN  [ updated EXCEPT !.iterationCount = @ + 1 ]

\* Lines 97-112 of one enforceLoop invocation of the call, on the LoopState that
\* getOrCreateLoopState gave it.
IterationFrom(state, call, technoElement) ==
  LET observation == performObservation(config, call.layerName, call.input, call.currentOutput)
      selfQuestion == performSelfQuestion(call.layerName, observation)
      reconciliation ==
        performReconciliation(config, call.layerName, call.currentOutput, technoElement)
      seen == [ state EXCEPT !.observation = observation,
                             !.selfQuestion = selfQuestion,
                             !.reconciliation = reconciliation ]
      updated == updateBeliefs(config, seen, reconciliation)
  IN  [ updated EXCEPT !.iterationCount = @ + 1 ]

\* The LoopState after lines 95-112 of one enforceLoop invocation of the call.
IterationState(call, technoElement) ==
  IterationFrom(getOrCreateLoopState(call.layerId), call, technoElement)

\* An invocation that skips the veto check.
OutcomeWithoutVeto(state) ==
  IF /\ state.iterationCount < maxIterations
     /\ ~meetsCharacterThreshold(config, state.reconciliation)
    THEN "recurse"
  ELSE "return"

\* An invocation that recurses until the character threshold is met, however
\* many iterations the layer has had.
OutcomeUnbounded(state) ==
  IF maybeVeto(config, state.beliefs) THEN "veto"
  ELSE IF ~meetsCharacterThreshold(config, state.reconciliation) THEN "recurse"
  ELSE "return"

\* An invocation that looks for a veto only when it does not refine further.
OutcomeRefineFirst(state) ==
  IF /\ state.iterationCount < maxIterations
     /\ ~meetsCharacterThreshold(config, state.reconciliation)
    THEN "recurse"
  ELSE IF maybeVeto(config, state.beliefs) THEN "veto"
  ELSE "return"

\* What the invocation does after the belief update: "veto", "recurse" or "return".
Outcome(state) ==
  IF maybeVeto(config, state.beliefs) THEN "veto"
  ELSE IF /\ state.iterationCount < maxIterations
          /\ ~meetsCharacterThreshold(config, state.reconciliation)
    THEN "recurse"
  ELSE "return"

\* The call record after the invocation.
CallAfter(call, state) ==
  LET o == Outcome(state)
  IN  IF o = "recurse"
        THEN [ call EXCEPT !.currentOutput = state.reconciliation, !.iterations = @ + 1 ]
        ELSE [ call EXCEPT !.status = "returned",
                           !.iterations = @ + 1,
                           !.vetoed = (o = "veto"),
                           !.result = IF o = "veto"
                                        THEN vetoOutput(call.layerName, state.beliefs)
                                        ELSE state.reconciliation ]

\* A run whose processLayer awaits the enforcer gets the enforced response.
Deliver(rs, call) ==
  IF call.status = "returned" /\ call.caller \in DOMAIN rs
    THEN [ rs EXCEPT ![call.caller].pc = "enforced",
                     ![call.caller].enforcedResponse = call.result,
                     ![call.caller].vetoed = call.vetoed ]
    ELSE rs

\* One invocation of enforceLoop for the call; rs is the runs as the caller left them.
Invoke(call, rs) ==
  \E technoElement \in (IF call.caller = 0 THEN Draws ELSE RunDraws) :
    LET state == IterationState(call, technoElement)
        after == CallAfter(call, state)
    IN  /\ loopStates' = [ id \in DOMAIN loopStates \cup {call.layerId} |->
                            IF id = call.layerId THEN state ELSE loopStates[id] ]
        /\ enf' = after
        /\ runs' = Deliver(rs, after)

\* A direct call of enforceLoop (the enforcer's own API, as the tests use it):
\* its first invocation.
EnforceCall(layerId, layerName, input, currentOutput) ==
  /\ enf.status # "running"
  /\ WithinUpdates(layerId, currentOutput)
  /\ Invoke(NewCall(0, layerId, layerName, input, currentOutput), runs)
  /\ UNCHANGED <<mysticalMode, config, started, answered, toggles, core, writes>>

\* A recursive invocation of enforceLoop (line 123).
enforceLoop ==
  /\ enf.status = "running"
  /\ Invoke(enf, runs)
  /\ UNCHANGED <<mysticalMode, config, started, answered, toggles, core, writes>>

\* A reset that restarts the iteration count and keeps beliefs and failures.
resetCountOnly(layerId) ==
  /\ enf.status # "running"
  /\ layerId \in DOMAIN loopStates
  /\ loopStates' = [ loopStates EXCEPT ![layerId].iterationCount = 0 ]
  /\ UNCHANGED <<mysticalMode, config, enf, runs, started, answered, toggles, core, writes>>

\* A reset that clears the whole map.
resetAllStates(layerId) ==
  /\ enf.status # "running"
  /\ loopStates' = << >>
  /\ UNCHANGED <<mysticalMode, config, enf, runs, started, answered, toggles, core, writes>>

\* this.loopStates.delete(layerId)
resetLoopState(layerId) ==
  /\ enf.status # "running"
  /\ loopStates' = [ id \in DOMAIN loopStates \ {layerId} |-> loopStates[id] ]
  /\ UNCHANGED <<mysticalMode, config, enf, runs, started, answered, toggles, core, writes>>

\* this.loopStates.get(layerId): the state, or undefined.
getLoopState(layerId) ==
  IF layerId \in DOMAIN loopStates
    THEN [ defined |-> TRUE, state |-> loopStates[layerId] ]
    ELSE [ defined |-> FALSE ]

\* A caller writes beliefs into the object getLoopState returned; the object is
\* the one the map holds.  On undefined the write is a TypeError in the caller.
presetBeliefs(layerId, beliefs) ==
  /\ enf.status # "running"
  /\ getLoopState(layerId).defined
  /\ writes < MaxWrites
  /\ writes' = writes + 1
  /\ loopStates' = [ loopStates EXCEPT ![layerId].beliefs = beliefs ]
  /\ UNCHANGED <<mysticalMode, config, enf, runs, started, answered, toggles, core>>

\* An enable that sets the flag and the vocabulary and leaves the thresholds.
enableFlagOnly ==
  /\ enf.status # "running"
  /\ toggles < MaxToggles
  /\ toggles' = toggles + 1
  /\ mysticalMode' = TRUE
  /\ config' = [ config EXCEPT !.mysticalKeywords = MysticalVocabulary ]
  /\ UNCHANGED <<loopStates, enf, runs, started, answered, core, writes>>

enableMysticalMode ==
  /\ enf.status # "running"
  /\ toggles < MaxToggles
  /\ toggles' = toggles + 1
  /\ mysticalMode' = TRUE
  /\ config' = [ mysticalKeywords |-> MysticalVocabulary, beliefThresholds |-> MysticalThresholds ]
  /\ UNCHANGED <<loopStates, enf, runs, started, answered, core, writes>>

\* A disable that clears the flag and the vocabulary and leaves the thresholds.
disableFlagOnly ==
  /\ enf.status # "running"
  /\ toggles < MaxToggles
  /\ toggles' = toggles + 1
  /\ mysticalMode' = FALSE
  /\ config' = [ config EXCEPT !.mysticalKeywords = {} ]
  /\ UNCHANGED <<loopStates, enf, runs, started, answered, core, writes>>

disableMysticalMode ==
  /\ enf.status # "running"
  /\ toggles < MaxToggles
  /\ toggles' = toggles + 1
  /\ mysticalMode' = FALSE
  /\ config' = [ mysticalKeywords |-> {}, beliefThresholds |-> StandardThresholds ]
  /\ UNCHANGED <<loopStates, enf, runs, started, answered, core, writes>>

\* ------------------------------------------------------------ the pipeline

\* The value of a missing property.
Undefined == << >>

\* this.layers, as config/layers.json lists them: the sentinel and the terminal
\* anchor.  An id is held as its toString().
ConfiguredLayers ==
  << [ id |-> "13", name |-> "DA-13", desc |-> <<"Truth", "constraints">>,
       agent |-> <<"Sentinel">>, prompt |-> <<"Verify", "claims">> ],
     [ id |-> "X", name |-> "DA-X", desc |-> <<"Stability">>,
       agent |-> <<"Anchor">>, prompt |-> <<"Halt", "on", "instability">> ] >>

NoOverrides == [ k \in {} |-> k ]

\* The layerOverrides a run is started with.
OverrideChoices ==
  { NoOverrides,
    [ k \in {"13", "99"} |->
        IF k = "13" THEN [ prompt |-> <<"override-prompt">> ]
                    ELSE [ name |-> "DA-99" ] ],
    [ k \in {"X"} |-> [ id |-> "13", name |-> "Anchor", temperature |-> <<"0">> ] ] }

RunInputs == {<<"seed">>}

JsonClean == <<"{\"output\":\"clean\",\"reason\":\"ok\"}">>

JsonTechnical == <<"{\"output\":\"kernel\",\"reason\":\"runtime\"}">>

\* {"output":" clean ","reason":"ok"}
JsonPadded == <<"{\"output\":\"", "clean", "\",\"reason\":\"ok\"}">>

\* {"output":7,"reason":"ok"}
JsonNumeric == <<"{\"output\":7,\"reason\":\"ok\"}">>

\* What callXAI returns (already trimmed, line 203).
Replies == {GenericReply, JsonClean, JsonTechnical, JsonPadded, JsonNumeric}

\* The messages of the errors callXAI throws.
FailureMessages == {<<"XAI", "API", "error:", "HTTP", "500", "-", "unavailable">>}

StringField(t) == [ type |-> "string", text |-> t ]

\* JSON.parse on the texts of the model: the documents among the replies parse,
\* every other text is a SyntaxError.
JSONparse(t) ==
  CASE t = JsonClean ->
         [ ok |-> TRUE, output |-> StringField(<<"clean">>), reason |-> StringField(<<"ok">>) ]
    [] t = JsonTechnical ->
         [ ok |-> TRUE, output |-> StringField(<<"kernel">>), reason |-> StringField(<<"runtime">>) ]
    [] t = JsonPadded ->
         [ ok |-> TRUE, output |-> StringField(<<"", "clean", "">>), reason |-> StringField(<<"ok">>) ]
    [] t = JsonNumeric ->
         [ ok |-> TRUE, output |-> [ type |-> "number" ], reason |-> StringField(<<"ok">>) ]
    [] OTHER -> [ ok |-> FALSE ]

\* { output: parsed.output?.trim() || '', reason: parsed.reason || '' }; a TypeError
\* when output has no trim method.
Extract(parsed) ==
  IF ~parsed.ok \/ parsed.output.type = "number"
    THEN [ ok |-> FALSE ]
    ELSE [ ok |-> TRUE,
           output |-> IF parsed.output.type = "string" THEN Trim(parsed.output.text) ELSE EmptyText,
           reason |-> IF parsed.reason.type = "string" THEN parsed.reason.text ELSE EmptyText ]

\* A parse that gives up after the enforced text, without the retry on the
\* original reply.
ParseResponseNoRetry(layerName, includeReasons, enforcedResponse, initialResponse) ==
  IF ~includeReasons
    THEN [ ok |-> TRUE, output |-> Trim(enforcedResponse), reason |-> Undefined ]
  ELSE IF Extract(JSONparse(enforcedResponse)).ok
    THEN Extract(JSONparse(enforcedResponse))
  ELSE [ ok |-> FALSE,
         message |-> Concat(<<layerName>>,
                       Concat(<<"", "returned", "non-JSON", "while", "includeReasons=true:", "">>,
                              enforcedResponse)) ]

\* A parse that falls back on the raw enforced text instead of throwing.
ParseResponseLenient(layerName, includeReasons, enforcedResponse, initialResponse) ==
  IF ~includeReasons
    THEN [ ok |-> TRUE, output |-> Trim(enforcedResponse), reason |-> Undefined ]
  ELSE IF Extract(JSONparse(enforcedResponse)).ok
    THEN Extract(JSONparse(enforcedResponse))
  ELSE IF Extract(JSONparse(initialResponse)).ok
    THEN Extract(JSONparse(initialResponse))
  ELSE [ ok |-> TRUE, output |-> Trim(enforcedResponse), reason |-> EmptyText ]

\* Lines 157-178 of processLayer: what it returns, or the error it throws.
ParseResponse(layerName, includeReasons, enforcedResponse, initialResponse) ==
  IF ~includeReasons
    THEN [ ok |-> TRUE, output |-> Trim(enforcedResponse), reason |-> Undefined ]
  ELSE IF Extract(JSONparse(enforcedResponse)).ok
    THEN Extract(JSONparse(enforcedResponse))
  ELSE IF Extract(JSONparse(initialResponse)).ok
    THEN Extract(JSONparse(initialResponse))
  ELSE [ ok |-> FALSE,
         message |-> Concat(<<layerName>>,
                       Concat(<<"", "returned", "non-JSON", "while", "includeReasons=true:", "">>,
                              enforcedResponse)) ]

\* A merge in which the configured field wins: { ...override, ...layer }
MergeLayerKeep(layer, override) ==
  [ f \in DOMAIN layer \cup DOMAIN override |->
      IF f \in DOMAIN layer THEN layer[f] ELSE override[f] ]

\* { ...layer, ...override }
MergeLayer(layer, override) ==
  [ f \in DOMAIN layer \cup DOMAIN override |->
      IF f \in DOMAIN override THEN override[f] ELSE layer[f] ]

\* Lines 97-100 of runGovernance.
mergeLayers(layers, layerOverrides) ==
  [ i \in 1..Len(layers) |->
      IF layers[i].id \in DOMAIN layerOverrides
        THEN MergeLayer(layers[i], layerOverrides[layers[i].id])
        ELSE layers[i] ]

\* The content of the message processLayer sends (lines 136-145).
BuildPrompt(layer, input, includeReasons) ==
  LET instructions ==
        Concat(layer.prompt,
          IF includeReasons
            THEN <<"", "Respond", "as", "JSON", "with", "keys:", "output", "(stabilized", "text)",
                   "and", "reason", "(brief", "audit", "note).">>
            ELSE <<"", "Respond", "with", "only", "the", "stabilized", "text.", "No",
                   "meta-commentary.">>)
  IN  Concat(<<"You", "are", "">>,
      Concat(<<layer.name>>,
      Concat(<<"", "acting", "as", "">>,
      Concat(layer.agent,
      Concat(<<".", "Duty:", "">>,
      Concat(layer.desc,
      Concat(<<".", "Protocol:", "">>,
      Concat(instructions,
      Concat(<<"", "Prior", "output:", "">>, input)))))))))

\* Every layer is terminal.
IsTerminalAny(layer) == TRUE

\* No layer is terminal.
IsTerminalNone(layer) == FALSE

\* layer.id === 'X'
IsTerminal(layer) == layer.id = "X"

\* A loop that never advances current.
ThreadStale(result, current) == current

\* current = result.output (line 108)
Thread(result, current) == result.output

IdleRun ==
  [ pc |-> "idle", input |-> EmptyText, includeReasons |-> FALSE,
    layerOverrides |-> NoOverrides, layers |-> << >>,
    current |-> EmptyText, trace |-> << >>, index |-> 0,
    initialResponse |-> EmptyText, enforcedResponse |-> EmptyText, vetoed |-> FALSE,
    attempts |-> << >>, result |-> [ kind |-> "none" ] ]

\* The record kept of one layer's external call: the prompt sent, the text that
\* entered the layer, and how the layer ended.
NewAttempt(prompt, input) ==
  [ prompt |-> prompt, input |-> input, outcome |-> "pending",
    initialResponse |-> EmptyText, enforcedResponse |-> EmptyText, vetoed |-> FALSE,
    message |-> EmptyText ]

\* The for loop of runGovernance reaches its next layer, whose processLayer runs
\* up to the await of callXAI; or the loop is over and the run returns.
NextLayer(run) ==
  IF run.index < Len(run.layers)
    THEN [ run EXCEPT !.index = @ + 1,
                      !.pc = "awaiting",
                      !.attempts = Append(@, NewAttempt(
                          BuildPrompt(run.layers[run.index + 1], run.current, run.includeReasons),
                          run.current)) ]
    ELSE [ run EXCEPT !.pc = "returned",
                      !.result = [ kind |-> "value", output |-> run.current, trace |-> run.trace ] ]

\* A try body that is never resumed after the layer has returned.
ReturnedHang(run, result) == [ run EXCEPT !.pc = "parked" ]

\* Lines 108-113: processLayer returned result.
Returned(run, result) ==
  NextLayer([ run EXCEPT !.current = Thread(result, run.current),
                         !.trace = Append(@, [ layer |-> run.layers[run.index].name,
                                               output |-> result.output,
                                               reason |-> result.reason ]) ])

\* A catch that goes on to the next layer without a trace entry.
CaughtDropped(run, message) ==
  IF IsTerminal(run.layers[run.index])
    THEN [ run EXCEPT !.pc = "thrown",
                      !.result = [ kind |-> "error", message |-> message ] ]
    ELSE NextLayer(run)

\* A catch that tries a failed non-terminal layer again.
CaughtRetry(run, message) ==
  IF IsTerminal(run.layers[run.index])
    THEN [ run EXCEPT !.pc = "thrown",
                      !.result = [ kind |-> "error", message |-> message ] ]
    ELSE NextLayer([ run EXCEPT !.index = @ - 1 ])

\* Lines 114-125: processLayer threw an error with this message.
Caught(run, message) ==
  IF IsTerminal(run.layers[run.index])
    THEN [ run EXCEPT !.pc = "thrown",
                      !.result = [ kind |-> "error",
                                   message |-> Concat(<<"Governance", "halted", "by", "">>,
                                                 Concat(<<run.layers[run.index].name>>,
                                                   Concat(<<":", "">>, message))) ] ]
    ELSE NextLayer([ run EXCEPT !.trace = Append(@, [ layer |-> run.layers[run.index].name,
                                                      output |-> run.current,
                                                      reason |-> Concat(<<"Error:", "">>, message) ]) ])

\* What the constructor may find at configPath.
ConfigFiles == {"layers", "empty list", "object", "null", "not JSON", "missing"}

\* The API keys the core may be constructed with.
ApiKeys == {"xai-key", "", "your_xai_api_key_here"}

\* Lines 77-83: readFileSync, JSON.parse and the read of this.layers.length.
\* The value parsed is a list of layers or something else; reading the file or
\* parsing it may throw, and so does reading the length of null.
LoadLayers(file) ==
  CASE file = "layers" -> [ ok |-> TRUE, kind |-> "list", items |-> ConfiguredLayers ]
    [] file = "empty list" -> [ ok |-> TRUE, kind |-> "list", items |-> << >> ]
    [] file = "object" -> [ ok |-> TRUE, kind |-> "object", items |-> << >> ]
    [] OTHER -> [ ok |-> FALSE ]

\* new DAXGovernanceCore({ apiKey }) with this file at configPath.
Constructor(file, apiKey) ==
  IF ~LoadLayers(file).ok
    THEN [ constructed |-> FALSE, file |-> file,
           error |-> <<"Failed", "to", "load", "layer", "configuration">> ]
  ELSE IF apiKey \in {"", "your_xai_api_key_here"}
    THEN [ constructed |-> FALSE, file |-> file,
           error |-> <<"Valid", "XAI_API_KEY", "is", "required">> ]
  ELSE [ constructed |-> TRUE, file |-> file,
         layers |-> [ kind |-> LoadLayers(file).kind, items |-> LoadLayers(file).items ] ]

\* The run that layers.map ends at once: this.layers is no array.
MapThrows(run) ==
  [ run EXCEPT !.pc = "thrown",
               !.result = [ kind |-> "error",
                            message |-> <<"this.layers.map", "is", "not", "a", "function">> ] ]

\* A call of runGovernance, up to the first await.
runGovernance(r, input, includeReasons, layerOverrides) ==
  /\ core.constructed
  /\ runs[r].pc \in {"idle", "returned", "thrown"}
  /\ enf.status # "running"
  /\ started < MaxRuns
  /\ started' = started + 1
  /\ runs' = [ runs EXCEPT ![r] =
                 LET run == [ IdleRun EXCEPT !.input = input,
                                             !.includeReasons = includeReasons,
                                             !.layerOverrides = layerOverrides,
                                             !.current = input ]
                 IN  IF core.layers.kind = "list"
                       THEN NextLayer([ run EXCEPT
                              !.layers = mergeLayers(core.layers.items, layerOverrides) ])
                       ELSE MapThrows(run) ]
  /\ UNCHANGED <<mysticalMode, config, loopStates, enf, answered, toggles, core, writes>>

\* callXAI resolves with reply: processLayer goes on into enforceLoop, whose
\* first invocation runs at once.
callXAIReturns(r, reply) ==
  /\ runs[r].pc = "awaiting"
  /\ enf.status # "running"
  /\ answered < MaxCalls
  /\ answered' = answered + 1
  /\ LET run == runs[r]
         layer == run.layers[run.index]
     IN  Invoke(NewCall(r, layer.id, layer.name, run.current, reply),
                [ runs EXCEPT ![r].pc = "enforcing", ![r].initialResponse = reply ])
  /\ UNCHANGED <<mysticalMode, config, started, toggles, core, writes>>

\* A failure that discards the belief updates made so far.
callXAIFailsRollback(r, message) ==
  /\ runs[r].pc = "awaiting"
  /\ enf.status # "running"
  /\ answered < MaxCalls
  /\ answered' = answered + 1
  /\ LET run == runs[r]
         failed == [ run EXCEPT !.attempts[run.index].outcome = "failed",
                                !.attempts[run.index].message = message ]
     IN  runs' = [ runs EXCEPT ![r] = Caught(failed, message) ]
  /\ loopStates' = << >>
  /\ UNCHANGED <<mysticalMode, config, enf, started, toggles, core, writes>>

\* callXAI rejects: the catch of runGovernance.
callXAIFails(r, message) ==
  /\ runs[r].pc = "awaiting"
  /\ enf.status # "running"
  /\ answered < MaxCalls
  /\ answered' = answered + 1
  /\ LET run == runs[r]
         failed == [ run EXCEPT !.attempts[run.index].outcome = "failed",
                                !.attempts[run.index].message = message ]
     IN  runs' = [ runs EXCEPT ![r] = Caught(failed, message) ]
  /\ UNCHANGED <<mysticalMode, config, loopStates, enf, started, toggles, core, writes>>

\* processLayer resumes after enforceLoop, returns or throws, and runGovernance
\* goes on to the next layer.
processLayer(r) ==
  /\ runs[r].pc = "enforced"
  /\ enf.status # "running"
  /\ LET run == runs[r]
         result == ParseResponse(run.layers[run.index].name, run.includeReasons,
                                 run.enforcedResponse, run.initialResponse)
         seen == [ run EXCEPT !.attempts[run.index].initialResponse = run.initialResponse,
                              !.attempts[run.index].enforcedResponse = run.enforcedResponse,
                              !.attempts[run.index].vetoed = run.vetoed,
                              !.attempts[run.index].outcome =
                                 IF result.ok THEN "returned" ELSE "threw",
                              !.attempts[run.index].message =
                                 IF result.ok THEN EmptyText ELSE result.message ]
     IN  runs' = [ runs EXCEPT ![r] = IF result.ok THEN Returned(seen, result)
                                                   ELSE Caught(seen, result.message) ]
  /\ UNCHANGED <<mysticalMode, config, loopStates, enf, started, answered, toggles, core, writes>>

\* ---------------------------------------------------------- specifications

RunIds == {1}

Init ==
  /\ mysticalMode = FALSE
  /\ config = [ mysticalKeywords |-> {}, beliefThresholds |-> StandardThresholds ]
  /\ loopStates = << >>
  /\ enf = IdleCall
  /\ runs = [ r \in RunIds |-> IdleRun ]
  /\ started = 0
  /\ answered = 0
  /\ core = Constructor("layers", "xai-key")
  /\ toggles = 0
  /\ writes = 0

\* The enforcer on its own: direct calls, resets and the mode switch.
EnforcerNext ==
  \/ \E l \in DirectLayers, i \in DirectInputs, c \in DirectCandidates :
       EnforceCall(l[1], l[2], i, c)
  \/ enforceLoop
  \/ \E l \in DirectLayers : resetLoopState(l[1])
  \/ enableMysticalMode
  \/ disableMysticalMode

EnforcerSpec == Init /\ [][EnforcerNext]_vars

\* A call for a layer that has a state can be made or go on: one is on the
\* stack, or the layer is within the bounds for some candidate.
RepeatReady ==
  \/ enf.status = "running"
  \/ \E l \in DirectLayers, c \in DirectCandidates :
       l[1] \in DOMAIN loopStates /\ WithinUpdates(l[1], c)

\* A step that is an invocation of enforceLoop (of EnforceCall or enforceLoop)
\* for a layer that had a state: the layer has had one more update.
RepeatStep ==
  /\ enf'.layerId \in DOMAIN loopStates \cap DOMAIN loopStates'
  /\ loopStates'[enf'.layerId].iterationCount = loopStates[enf'.layerId].iterationCount + 1

RepeatNext ==
  \/ \E l \in DirectLayers, i \in DirectInputs, c \in DirectCandidates :
       EnforceCall(l[1], l[2], i, c)
  \/ enforceLoop
  \/ \E l \in DirectLayers : resetLoopState(l[1])
  \/ enableMysticalMode

\* The enforcer under a caller that keeps calling: a layer that has a state is
\* called again, and a call on the stack goes on.  The second conjunct is the
\* weak fairness WF_vars(EnforceCall(..) \/ enforceLoop) on the layers that have
\* a state, written out with the actions' guard.
RepeatSpec ==
  /\ Init /\ [][RepeatNext]_vars
  /\ []<>(~RepeatReady) \/ []<><<RepeatStep>>_vars

\* The enforcer as the test file drives it: direct calls, resets, the mode
\* switch, and writes to the state that getLoopState returns.
\* The belief updates the layer states have had between them.
RECURSIVE UpdatesHeld(_)
UpdatesHeld(ids) ==
  IF ids = {} THEN 0
  ELSE LET id == CHOOSE x \in ids : TRUE
       IN  loopStates[id].iterationCount + UpdatesHeld(ids \ {id})

\* A direct call made by a test, while the harness is within its bound.
HarnessCall(layerId, layerName, input, currentOutput) ==
  /\ UpdatesHeld(DOMAIN loopStates) + maxIterations <= MaxHarnessUpdates
       \/ /\ layerId \in DOMAIN loopStates
          /\ loopStates[layerId].iterationCount >= maxIterations
          /\ UpdatesHeld(DOMAIN loopStates) < MaxHarnessUpdates
  /\ EnforceCall(layerId, layerName, input, currentOutput)

HarnessNext ==
  \/ \E l \in HarnessLayers, i \in DirectInputs, c \in HarnessCandidates :
       HarnessCall(l[1], l[2], i, c)
  \/ enforceLoop
  \/ \E l \in HarnessLayers : resetLoopState(l[1])
  \/ enableMysticalMode
  \/ \E l \in HarnessLayers, b \in BeliefPresets : presetBeliefs(l[1], b)

HarnessSpec == Init /\ [][HarnessNext]_vars

\* The enforcer serving two layers: direct calls, resets and the mode switch.
TwoLayers == {<<"13", "DA-13">>, <<"X", "DA-X">>}

TwoLayerCandidates == {GenericReply, TechnicalReply}

TwoLayerNext ==
  \/ \E l \in TwoLayers, i \in DirectInputs, c \in TwoLayerCandidates :
       HarnessCall(l[1], l[2], i, c)
  \/ enforceLoop
  \/ \E l \in TwoLayers : resetLoopState(l[1])
  \/ enableMysticalMode

TwoLayerSpec == Init /\ [][TwoLayerNext]_vars

\* The core: runs of the pipeline over the shared enforcer.
Next ==
  \/ \E r \in RunIds, i \in RunInputs, b \in BOOLEAN, o \in OverrideChoices :
       runGovernance(r, i, b, o)
  \/ \E r \in RunIds, reply \in Replies : callXAIReturns(r, reply)
  \/ \E r \in RunIds, m \in FailureMessages : callXAIFails(r, m)
  \/ enforceLoop
  \/ \E r \in RunIds : processLayer(r)

Spec == Init /\ [][Next]_vars

\* Two callers share the core, and so its one LoopEnforcer: their runs
\* interleave at the awaits of callXAI.
ConcurrentRunIds == {1, 2}

\* What the two callers pass and get: no overrides, or the anchor redirected to
\* the sentinel's id; a generic reply, or a technical document.
ConcurrentOverrides == { o \in OverrideChoices : "13" \notin DOMAIN o }

ConcurrentReplies == {GenericReply, JsonTechnical}

ConcurrentInit ==
  /\ mysticalMode = FALSE
  /\ config = [ mysticalKeywords |-> {}, beliefThresholds |-> StandardThresholds ]
  /\ loopStates = << >>
  /\ enf = IdleCall
  /\ runs = [ r \in ConcurrentRunIds |-> IdleRun ]
  /\ started = 0
  /\ answered = 0
  /\ core = Constructor("layers", "xai-key")
  /\ toggles = 0
  /\ writes = 0

ConcurrentNext ==
  \/ \E r \in ConcurrentRunIds, i \in RunInputs, o \in ConcurrentOverrides :
       runGovernance(r, i, FALSE, o)
  \/ \E r \in ConcurrentRunIds, reply \in ConcurrentReplies : callXAIReturns(r, reply)
  \/ \E r \in ConcurrentRunIds, m \in FailureMessages : callXAIFails(r, m)
  \/ enforceLoop
  \/ \E r \in ConcurrentRunIds : processLayer(r)

ConcurrentSpec == ConcurrentInit /\ [][ConcurrentNext]_vars

\* The external call of run r can settle: the run awaits it, no enforceLoop
\* call is on the stack, and the service still answers.
SettleReady(r) ==
  /\ runs[r].pc = "awaiting"
  /\ enf.status # "running"
  /\ answered < MaxCalls

\* A step in which the external call of run r settles (callXAIReturns or
\* callXAIFails for r).
SettleStep(r) ==
  /\ runs[r].pc = "awaiting"
  /\ answered' = answered + 1
  /\ runs'[r] # runs[r]

\* A step of the enforceLoop call on the stack: its next invocation.
EnforceStep ==
  /\ enf.status = "running"
  /\ loopStates' # loopStates

\* processLayer of run r can resume: enforceLoop has returned to it.
ResumeReady(r) ==
  /\ runs[r].pc = "enforced"
  /\ enf.status # "running"

\* A step in which processLayer of run r resumes.
ResumeStep(r) ==
  /\ runs[r].pc = "enforced"
  /\ runs'[r] # runs[r]

\* The two callers, with an event loop that runs every continuation that is
\* ready and an external service that settles a call it is still answering
\* (it answers MaxCalls calls and then stalls).  Each conjunct is the weak
\* fairness of one action, WF_vars(enforceLoop), WF_vars(callXAIReturns(r, _) \/
\* callXAIFails(r, _)) and WF_vars(processLayer(r)), written out as "infinitely
\* often not ready or infinitely often taken" with the action's guard.
LiveSpec ==
  /\ ConcurrentSpec
  /\ []<>(enf.status # "running") \/ []<><<EnforceStep>>_vars
  /\ \A r \in ConcurrentRunIds :
       /\ []<>(~SettleReady(r)) \/ []<><<SettleStep(r)>>_vars
       /\ []<>(~ResumeReady(r)) \/ []<><<ResumeStep(r)>>_vars

\* The core constructed over whatever configuration file and key it is given.
ConstructInit ==
  /\ mysticalMode = FALSE
  /\ config = [ mysticalKeywords |-> {}, beliefThresholds |-> StandardThresholds ]
  /\ loopStates = << >>
  /\ enf = IdleCall
  /\ runs = [ r \in RunIds |-> IdleRun ]
  /\ started = 0
  /\ answered = 0
  /\ toggles = 0
  /\ writes = 0
  /\ \E file \in ConfigFiles, apiKey \in ApiKeys : core = Constructor(file, apiKey)

ConstructSpec == ConstructInit /\ [][Next]_vars

\* ------------------------------------------------------------------ claims

\* text.includes('VETO ACTIVATED')
HasVetoMarker(t) == \E i \in 1..(Len(t) - 1) : t[i] = "VETO" /\ t[i + 1] = "ACTIVATED:"

\* The step is an invocation of enforceLoop: the called layer's state has had one
\* more belief update (or has just been created by it).
Invoked ==
  /\ enf'.layerId \in DOMAIN loopStates'
  /\ \/ enf'.layerId \notin DOMAIN loopStates
     \/ /\ enf'.layerId \in DOMAIN loopStates
        /\ loopStates'[enf'.layerId].iterationCount
             = loopStates[enf'.layerId].iterationCount + 1

\* C1: after the belief update of every enforceLoop invocation, the call returns
\* the refusal text (with the marker VETO ACTIVATED) exactly when
\* hallucinationRisk > riskThreshold or coherence < 0.75 * coherenceThreshold of
\* the active profile; so a call that returns another text leaves beliefs with
\* hallucinationRisk <= riskThreshold and coherence >= 0.75 * coherenceThreshold.
C1_VetoRule ==
  [][ Invoked =>
        LET b == loopStates'[enf'.layerId].beliefs
            t == config'.beliefThresholds
            crossed == \/ b.hallucinationRisk > t.hallucinationRisk
                       \/ 4 * b.coherence < 3 * t.coherence
            refused == /\ enf'.status = "returned"
                       /\ HasVetoMarker(enf'.result)
        IN  /\ refused <=> crossed
            /\ (enf'.status = "returned" /\ ~refused) =>
                  /\ b.hallucinationRisk <= t.hallucinationRisk
                  /\ 4 * b.coherence >= 3 * t.coherence ]_vars

\* A call has returned a refusal although the risk is within the threshold:
\* the coherence test alone vetoed it.
C1_Witness ==
  /\ enf.status = "returned"
  /\ HasVetoMarker(enf.result)
  /\ enf.layerId \in DOMAIN loopStates
  /\ loopStates[enf.layerId].beliefs.hallucinationRisk
       <= config.beliefThresholds.hallucinationRisk
  /\ 4 * loopStates[enf.layerId].beliefs.coherence < 3 * config.beliefThresholds.coherence

\* The layer attempts of run r that have a trace entry.
Recorded(r) == { i \in 1..Len(runs[r].attempts) : i <= Len(runs[r].trace) }

\* The text that entered layer i of run r: the run's input, or the output
\* recorded for the layer before.
Entered(r, i) == IF i = 1 THEN runs[r].input ELSE runs[r].trace[i - 1].output

\* C2: when the enforcer vetoes a layer's reply during a run, the output recorded
\* in that layer's trace entry, and threaded on as the next layer's input, is the
\* refusal text, whether includeReasons is false or true.
C2_VetoIsRecorded ==
  \A r \in RunIds : \A i \in Recorded(r) :
    runs[r].attempts[i].vetoed =>
      /\ runs[r].trace[i].output = Trim(runs[r].attempts[i].enforcedResponse)
      /\ HasVetoMarker(runs[r].trace[i].output)
      /\ i < Len(runs[r].attempts) =>
           runs[r].attempts[i + 1].input = runs[r].trace[i].output

\* C3: in every reachable state each LoopState's coherence, reliability and
\* hallucinationRisk lie in [0,1].
C3_BeliefsInUnitInterval ==
  \A id \in DOMAIN loopStates :
    LET b == loopStates[id].beliefs
    IN  /\ 0 <= b.coherence /\ b.coherence <= Scale
        /\ 0 <= b.reliability /\ b.reliability <= Scale
        /\ 0 <= b.hallucinationRisk /\ b.hallucinationRisk <= Scale

\* Coherence stands at 1 after more +0.03 steps than fit between 0.7 and 1: the
\* upper clamp has cut an update.
C3_Witness ==
  \E id \in DOMAIN loopStates :
    /\ loopStates[id].beliefs.coherence = Scale
    /\ loopStates[id].iterationCount > 10

\* C4: a run over N >= 1 layers that returns a result returns a trace of length N
\* and the output of its last entry, whatever mix of successful layers, vetoes
\* and non-terminal layer errors it went through.
C4_TraceLength ==
  \A r \in RunIds :
    runs[r].result.kind = "value" =>
      /\ Len(ConfiguredLayers) >= 1
      /\ Len(runs[r].result.trace) = Len(ConfiguredLayers)
      /\ runs[r].result.output = runs[r].result.trace[Len(ConfiguredLayers)].output

\* A run has returned after a failed external call on its first layer and a
\* veto on its second.
C4_Witness ==
  \E r \in RunIds :
    /\ runs[r].result.kind = "value"
    /\ runs[r].attempts[1].outcome = "failed"
    /\ runs[r].attempts[2].vetoed

\* C5: layers are processed one after another in configured order; the prompt of
\* the first layer's external call contains the run's input and the prompt of
\* every later layer contains the output recorded in the trace for the layer
\* before it; a layer's call is issued only when the layer before is done.
C5_Sequencing ==
  \A r \in RunIds : \A k \in 1..Len(runs[r].attempts) :
    /\ Includes(runs[r].attempts[k].prompt, <<"You", "are", runs[r].layers[k].name>>)
    /\ Len(runs[r].trace) >= k - 1
    /\ Includes(runs[r].attempts[k].prompt, Entered(r, k))
    /\ \A j \in 1..(k - 1) : runs[r].attempts[j].outcome # "pending"
    /\ (enf.status = "running" /\ enf.caller = r) => k <= runs[r].index

\* The second layer's call has been issued with a prompt built from a first
\* layer output that the enforcer rewrote.
C5_Witness ==
  \E r \in RunIds :
    /\ Len(runs[r].attempts) = 2
    /\ runs[r].attempts[1].outcome = "returned"
    /\ runs[r].trace[1].output # runs[r].input
    /\ runs[r].trace[1].output # runs[r].attempts[1].initialResponse

\* C6: when the external call fails on a layer whose id is not "X", the run goes
\* on: the layer gets a trace entry whose output is the unchanged current text
\* and whose reason is "Error: " and the failure message, and the next layer is
\* given that unchanged text.
C6_NonTerminalFailure ==
  \A r \in RunIds : \A i \in 1..Len(runs[r].attempts) :
    (runs[r].attempts[i].outcome = "failed" /\ runs[r].layers[i].id # "X") =>
      /\ Len(runs[r].trace) >= i
      /\ runs[r].trace[i].output = Entered(r, i)
      /\ runs[r].trace[i].reason = Concat(<<"Error:", "">>, runs[r].attempts[i].message)
      /\ IF i < Len(runs[r].layers)
           THEN /\ Len(runs[r].attempts) > i
                /\ runs[r].attempts[i + 1].input = Entered(r, i)
           ELSE /\ runs[r].result.kind = "value"
                /\ runs[r].result.output = Entered(r, i)

\* The first layer's call failed and the second layer's call is out.
C6_Witness ==
  \E r \in RunIds :
    /\ Len(runs[r].attempts) = 2
    /\ runs[r].attempts[1].outcome = "failed"
    /\ runs[r].attempts[2].outcome = "pending"

\* C7: when the external call fails on the terminal layer (id "X"), the run
\* ends with an error and delivers nothing: no output and no partial trace.
C7_TerminalFailure ==
  \A r \in RunIds : \A i \in 1..Len(runs[r].attempts) :
    (runs[r].attempts[i].outcome = "failed" /\ runs[r].layers[i].id = "X") =>
      /\ runs[r].pc = "thrown"
      /\ runs[r].result.kind = "error"
      /\ DOMAIN runs[r].result = {"kind", "message"}
      /\ Includes(runs[r].result.message, runs[r].attempts[i].message)

\* The terminal layer's call failed after an earlier layer had been recorded.
C7_Witness ==
  \E r \in RunIds :
    /\ runs[r].pc = "thrown"
    /\ Len(runs[r].trace) = 1
    /\ runs[r].attempts[2].outcome = "failed"

\* Does the text parse as structured data: a document whose output can be trimmed?
Structured(t) == JSONparse(t).ok /\ JSONparse(t).output.type # "number"

\* The attempts of run r on which includeReasons was set and neither the
\* enforced text nor the original reply parsed as structured data.
Unparsed(r) ==
  { i \in 1..Len(runs[r].attempts) :
      /\ runs[r].includeReasons
      /\ runs[r].attempts[i].outcome \in {"returned", "threw"}
      /\ ~Structured(runs[r].attempts[i].enforcedResponse)
      /\ ~Structured(runs[r].attempts[i].initialResponse) }

ParseError(r, i) ==
  Concat(<<runs[r].layers[i].name>>,
    Concat(<<"", "returned", "non-JSON", "while", "includeReasons=true:", "">>,
           runs[r].attempts[i].enforcedResponse))

C9_StructuredReply ==
  \A r \in RunIds :
    /\ \A i \in 1..Len(runs[r].attempts) :
         LET a == runs[r].attempts[i]
             reply == JSONparse(a.initialResponse)
         IN  ( /\ runs[r].includeReasons
               /\ a.outcome \in {"returned", "threw"}
               /\ reply.ok
               /\ reply.output.type = "string"
               /\ reply.reason.type = "string" ) =>
                 /\ a.outcome = "returned"
                 /\ runs[r].trace[i].output = Trim(reply.output.text)
                 /\ runs[r].trace[i].reason = reply.reason.text
    /\ ( /\ runs[r].includeReasons
         /\ runs[r].result.kind = "value"
         /\ \A i \in 1..Len(runs[r].attempts) :
              /\ runs[r].attempts[i].outcome = "returned"
              /\ runs[r].attempts[i].initialResponse = JsonClean ) =>
           /\ runs[r].result.output = <<"clean">>
           /\ runs[r].result.trace[1].reason = <<"ok">>

\* A reply whose output field is padded with whitespace was rewritten by the
\* enforcer, and the trace entry holds the trimmed field.
C9_Witness ==
  \E r \in RunIds :
    /\ runs[r].includeReasons
    /\ Len(runs[r].trace) >= 1
    /\ runs[r].attempts[1].initialResponse = JsonPadded
    /\ runs[r].attempts[1].enforcedResponse # JsonPadded
    /\ runs[r].trace[1].output = <<"clean">>

\* C10: the layers a run uses are as many as the configured ones and in their
\* order; a layer whose id has an override entry takes the entry's fields and
\* keeps its configured value in every other field; a layer without an entry is
\* its configured version; entries for other ids change nothing.
C10_OverrideMerge ==
  \A r \in RunIds :
    runs[r].pc # "idle" =>
      /\ Len(runs[r].layers) = Len(ConfiguredLayers)
      /\ \A i \in 1..Len(ConfiguredLayers) :
           LET c == ConfiguredLayers[i]
               m == runs[r].layers[i]
               o == runs[r].layerOverrides
           IN  IF c.id \in DOMAIN o
                 THEN /\ DOMAIN m = DOMAIN c \cup DOMAIN o[c.id]
                      /\ \A f \in DOMAIN o[c.id] : m[f] = o[c.id][f]
                      /\ \A f \in DOMAIN c \ DOMAIN o[c.id] : m[f] = c[f]
                 ELSE m = c

\* A run is under way with an override for layer 13's prompt and an entry for
\* an id that no layer has.
C10_Witness ==
  \E r \in RunIds :
    /\ runs[r].pc = "awaiting"
    /\ DOMAIN runs[r].layerOverrides = {"13", "99"}
    /\ runs[r].layers[1].prompt = <<"override-prompt">>
    /\ runs[r].layers[1].name = "DA-13"

\* hallucinationRisk of the layer state an invocation starts from.
RiskBefore(id) ==
  IF id \in DOMAIN loopStates
    THEN loopStates[id].beliefs.hallucinationRisk
    ELSE (2 * Scale) \div 10

\* C11: on every invocation of a call whose candidate is highly generic (a
\* generic pattern in it, character score below the coherence threshold) the
\* layer's hallucinationRisk is strictly greater than before, or is clamped at
\* 1; and the invocation that takes it over the active risk threshold returns
\* the text with the veto marker.
C11_GenericRiskGrows ==
  [][ ( /\ Invoked
        /\ GenericMatches(enf'.candidate) > 0
        /\ ScoreBelow(calculateTechnoMysticalScore(config, enf'.candidate),
                      config.beliefThresholds.coherence) ) =>
        LET old == RiskBefore(enf'.layerId)
            new == loopStates'[enf'.layerId].beliefs.hallucinationRisk
            thr == config.beliefThresholds.hallucinationRisk
        IN  /\ new > old \/ new = Scale
            /\ (old <= thr /\ new > thr) =>
                 /\ enf'.status = "returned"
                 /\ HasVetoMarker(enf'.result) ]_vars

\* Repeated calls with the very generic candidate have taken the risk over the
\* threshold while coherence is still within bounds, and the call was vetoed.
C11_Witness ==
  /\ enf.status = "returned"
  /\ enf.candidate = VeryGenericReply
  /\ HasVetoMarker(enf.result)
  /\ enf.layerId \in DOMAIN loopStates
  /\ loopStates[enf.layerId].iterationCount > maxIterations
  /\ loopStates[enf.layerId].beliefs.hallucinationRisk
       > config.beliefThresholds.hallucinationRisk
  /\ 4 * loopStates[enf.layerId].beliefs.coherence >= 3 * config.beliefThresholds.coherence

EventsOf(failures, code) == { i \in 1..Len(failures) : failures[i].code = code }

C13_ResetRestoresDefaults ==
  [][ /\ (loopStates' # loopStates /\ ~Invoked) =>
           \E id \in DOMAIN loopStates :
             loopStates' = [ k \in DOMAIN loopStates \ {id} |-> loopStates[k] ]
      /\ (Invoked /\ enf'.layerId \notin DOMAIN loopStates) =>
           LET st  == loopStates'[enf'.layerId]
               low == ScoreBelow(calculateTechnoMysticalScore(config, st.reconciliation),
                                 config.beliefThresholds.coherence)
               coh == IF low THEN (64 * Scale) \div 100 ELSE (73 * Scale) \div 100
               rel == (71 * Scale) \div 100
               risk == (2 * Scale) \div 10
                         + (GenericMatches(st.reconciliation) * 8 * Scale) \div 1200
                         + ((Scale - coh) * 6) \div 100
           IN  /\ st.iterationCount = 1
               /\ st.beliefs = [ coherence |-> coh, reliability |-> rel,
                                 hallucinationRisk |-> risk ]
               /\ \A i \in 1..Len(st.failures) :
                    st.failures[i].code \in
                      {"COHERENCE_DECAY", "RELIABILITY_DEGRADATION", "HALLUCINATION_RISK"}
               /\ Len(st.failures) = Cardinality({ c \in {"COHERENCE_DECAY",
                                     "RELIABILITY_DEGRADATION", "HALLUCINATION_RISK"} :
                                     EventsOf(st.failures, c) # {} })
               /\ (EventsOf(st.failures, "COHERENCE_DECAY") # {}) <=> low
               /\ (EventsOf(st.failures, "RELIABILITY_DEGRADATION") # {})
                    <=> rel < config.beliefThresholds.reliability
               /\ (EventsOf(st.failures, "HALLUCINATION_RISK") # {})
                    <=> risk > config.beliefThresholds.hallucinationRisk ]_vars

\* The layer of the last call, which ended in a veto, has been reset: it has no
\* state any more.
C13_Witness ==
  /\ enf.status = "returned"
  /\ enf.vetoed
  /\ enf.iterations = 1
  /\ enf.layerId \notin DOMAIN loopStates

\* The step is an invocation of a call of the end-to-end scenario: mystical
\* mode, input "help me", candidate "I would be happy to help you with your
\* request".
ScenarioInvoked ==
  /\ Invoked
  /\ mysticalMode
  /\ enf'.input = <<"help", "me">>
  /\ enf'.candidate = GenericReply

\* C14: in mystical mode the first call on a fresh layer state with input
\* "help me" and candidate "I would be happy to help you with your request"
\* returns a text that is no veto (a later identical call returns a veto).
C14_FirstCallPasses ==
  [][ ( /\ ScenarioInvoked
        /\ enf'.status = "returned"
        /\ loopStates'[enf'.layerId].iterationCount = enf'.iterations ) =>
        ~HasVetoMarker(enf'.result) ]_vars

\* C15: in the same scenario, when a call returns a veto the layer's failure
\* log holds a HALLUCINATION_RISK event of severity high.
C15_VetoLogsHighRisk ==
  [][ ( /\ ScenarioInvoked
        /\ enf'.status = "returned"
        /\ HasVetoMarker(enf'.result) ) =>
        \E i \in EventsOf(loopStates'[enf'.layerId].failures, "HALLUCINATION_RISK") :
          loopStates'[enf'.layerId].failures[i].severity = "high" ]_vars

\* C19: a call of enforceLoop makes at most maxIterations = 3 iterations: a call
\* that is still running has made fewer than 3 and its layer has had fewer than
\* 3 updates, and every step taken while it runs is its next iteration, so it
\* returns after at most 3 steps.
C19_BoundedIterations ==
  /\ [] ( /\ enf.iterations <= 3
          /\ maxIterations = 3
          /\ enf.status = "running" =>
               /\ enf.iterations < 3
               /\ enf.layerId \in DOMAIN loopStates
               /\ loopStates[enf.layerId].iterationCount < 3 )
  /\ [][ enf.status = "running" =>
           /\ enf'.iterations = enf.iterations + 1
           /\ enf'.layerId = enf.layerId
           /\ enf'.candidate = enf.candidate
           /\ Invoked ]_vars

\* A call on a fresh layer state has returned, without veto, after three
\* iterations.
C19_Witness ==
  /\ enf.status = "returned"
  /\ enf.iterations = 3
  /\ ~enf.vetoed
  /\ enf.layerId \in DOMAIN loopStates
  /\ loopStates[enf.layerId].iterationCount = 3

\* C20: the mode flag is set iff the thresholds are (0.8, 0.75, 0.3) and the
\* mystical vocabulary is populated, and is clear iff the thresholds are
\* (0.6, 0.7, 0.4) and the vocabulary is empty; no enforce or reset step changes
\* the flag, the thresholds or the vocabulary.
C20_ProfileAgreesWithMode ==
  /\ [] ( /\ mysticalMode =>
               /\ config.beliefThresholds =
                    [ coherence |-> (8 * Scale) \div 10, reliability |-> (75 * Scale) \div 100,
                      hallucinationRisk |-> (3 * Scale) \div 10 ]
               /\ Cardinality(config.mysticalKeywords) = 24
          /\ ~mysticalMode =>
               /\ config.beliefThresholds =
                    [ coherence |-> (6 * Scale) \div 10, reliability |-> (7 * Scale) \div 10,
                      hallucinationRisk |-> (4 * Scale) \div 10 ]
               /\ config.mysticalKeywords = {} )
  /\ [][ (loopStates' # loopStates \/ enf' # enf) =>
           UNCHANGED <<mysticalMode, config>> ]_vars

\* The profile is standard again after an update made under the mystical
\* thresholds: a reliability of at most 0.73 was logged as degraded.
C20_Witness ==
  /\ ~mysticalMode
  /\ toggles = 2
  /\ \E id \in DOMAIN loopStates :
       /\ loopStates[id].iterationCount <= 3
       /\ EventsOf(loopStates[id].failures, "RELIABILITY_DEGRADATION") # {}

\* C18: in every run the external call is issued once for each layer reached
\* and never again, also when it failed: the calls issued are one per layer,
\* in order, for the layers up to the current one.
C18_NoRetry ==
  \A r \in RunIds :
    /\ Len(runs[r].attempts) = runs[r].index
    /\ runs[r].index <= Len(runs[r].layers)
    /\ \A k \in 1..Len(runs[r].attempts) :
         /\ Includes(runs[r].attempts[k].prompt,
                     <<"You", "are", runs[r].layers[k].name, "acting", "as">>)
         /\ runs[r].attempts[k].outcome = "pending" => k = Len(runs[r].attempts)
    /\ Cardinality({ k \in 1..Len(runs[r].attempts) :
                       runs[r].attempts[k].outcome # "pending" }) <= answered

\* A run has returned after its first layer's call failed and its second
\* layer's call was answered: two calls in all.
C18_Witness ==
  \E r \in RunIds :
    /\ runs[r].result.kind = "value"
    /\ Len(runs[r].attempts) = 2
    /\ runs[r].attempts[1].outcome = "failed"
    /\ runs[r].attempts[2].outcome = "returned"
    /\ ~runs[r].attempts[2].vetoed

\* C17: the constructor fails on an empty or malformed layer configuration, so
\* a core that exists holds a list of at least one layer, and no run starts on
\* anything else.
C17_ConfigFailsFast ==
  /\ core.file \in {"empty list", "object", "null", "not JSON", "missing"} =>
       ~core.constructed
  /\ \A r \in RunIds :
       runs[r].pc # "idle" =>
         /\ core.layers.kind = "list"
         /\ Len(core.layers.items) >= 1

\* The enforceLoop call of a run's layer made on this LoopState, through its
\* recursive invocations: the state it leaves and whether it ends in a veto.
RECURSIVE CallFrom(_, _)
CallFrom(state, call) ==
  LET next == IterationFrom(state, call, CHOOSE t \in RunDraws : TRUE)
      after == CallAfter(call, next)
  IN  IF after.status = "running"
        THEN CallFrom(next, after)
        ELSE [ state |-> next, vetoed |-> after.vetoed ]

\* The call the run's k-th layer makes, on the LoopStates in states.
LayerCall(run, k, states) ==
  CallFrom(IF run.layers[k].id \in DOMAIN states THEN states[run.layers[k].id]
                                                 ELSE NewLoopState(run.layers[k].id),
           NewCall(0, run.layers[k].id, run.layers[k].name,
                   run.attempts[k].input, run.attempts[k].initialResponse))

\* The LoopStates of an enforcer that has served the first k layers of this run
\* and nothing else.
RECURSIVE AloneStates(_, _)
AloneStates(run, k) ==
  IF k = 0 THEN << >>
  ELSE LET before == AloneStates(run, k - 1)
       IN  IF run.attempts[k].outcome \in {"returned", "threw"}
             THEN [ id \in DOMAIN before \cup {run.layers[k].id} |->
                      IF id = run.layers[k].id THEN LayerCall(run, k, before).state
                                               ELSE before[id] ]
             ELSE before

\* No caller has started a second run.
FirstRunsOnly == Cardinality({ r \in ConcurrentRunIds : runs[r].pc # "idle" }) = started

\* C16: belief states are isolated per request: each layer of a run that shares
\* the enforcer with another run ends in a veto exactly when it would with the
\* run alone on an enforcer of its own.
C16_RunsIsolated ==
  FirstRunsOnly =>
    \A r \in ConcurrentRunIds :
      \A k \in 1..Len(runs[r].attempts) :
        runs[r].attempts[k].outcome \in {"returned", "threw"} =>
          runs[r].attempts[k].vetoed = LayerCall(runs[r], k, AloneStates(runs[r], k - 1)).vetoed

\* The beliefs {0.7, 0.7, 0.2}.
DefaultBeliefs ==
  [ coherence |-> (7 * Scale) \div 10, reliability |-> (7 * Scale) \div 10,
    hallucinationRisk |-> (2 * Scale) \div 10 ]

\* The state of id after one iteration of the call, had it started from the
\* default beliefs with iterationCount 0 and no failures.
FirstIterationFromDefaults(id, call, technoElement) ==
  IterationFrom([ NewLoopState(id) EXCEPT !.beliefs = DefaultBeliefs,
                                          !.iterationCount = 0,
                                          !.failures = << >> ],
                NewCall(call.caller, id, call.layerName, call.input, call.candidate),
                technoElement)

C22_ResetYieldsDefaults ==
  [][ \A l \in HarnessLayers :
        resetLoopState(l[1]) =>
          /\ l[1] \in DOMAIN loopStates'
          /\ loopStates'[l[1]].beliefs = DefaultBeliefs ]_vars

\* The state an invocation for id starts from.
StateBefore(id) ==
  IF id \in DOMAIN loopStates THEN loopStates[id] ELSE NewLoopState(id)

\* The events an invocation for id has appended.
Appended(id) ==
  SubSeq(loopStates'[id].failures, Len(StateBefore(id).failures) + 1,
         Len(loopStates'[id].failures))

Codes(events) == [ i \in 1..Len(events) |-> events[i].code ]

\* The texts have the same characterScore (clamped, as updateBeliefs takes it)
\* and the same genericScore.
SameScores(a, b) ==
  LET sa == calculateTechnoMysticalScore(config, a)
      sb == calculateTechnoMysticalScore(config, b)
  IN  /\ Min(sa.num, sa.den) * sb.den = Min(sb.num, sb.den) * sa.den
      /\ GenericMatches(a) = GenericMatches(b)

\* Texts an execution could have reconciled instead.
OtherTexts ==
  { <<"kernel">>, <<"help", "me">>, TechnicalReply, GenericReply, RecoveryReply, DenseReply }

\* C23: the beliefs, the iterationCount and the failure codes that a belief
\* update produces are those that the update produces on any other text with the
\* same characterScore and genericScore, from any other state (another layer, an
\* empty log, no texts kept) with the same beliefs and iterationCount.
C23_Deterministic ==
  [][ Invoked =>
        LET id == enf'.layerId
            old == StateBefore(id)
            new == loopStates'[id]
        IN  \A text \in OtherTexts :
              SameScores(new.reconciliation, text) =>
                LET other == updateBeliefs(config,
                               [ NewLoopState("other") EXCEPT
                                   !.beliefs = old.beliefs,
                                   !.iterationCount = old.iterationCount ],
                               text)
                IN  /\ other.beliefs = new.beliefs
                    /\ other.iterationCount + 1 = new.iterationCount
                    /\ Codes(other.failures) = Codes(Appended(id)) ]_vars

\* A layer whose log is not empty has had an update on a text that another text
\* matches in both scores.
C23_Witness ==
  \E id \in DOMAIN loopStates :
    /\ loopStates[id].iterationCount > 1
    /\ Len(loopStates[id].failures) > 1
    /\ \E text \in OtherTexts :
         /\ text # loopStates[id].reconciliation
         /\ SameScores(loopStates[id].reconciliation, text)

\* The states an enforceLoop call may leave its layer in, made on this state:
\* over every keyword the infusions of its iterations may draw.
RECURSIVE CallEnds(_, _)
CallEnds(state, call) ==
  UNION { LET next == IterationFrom(state, call, t)
              after == CallAfter(call, next)
          IN  IF after.status = "running" THEN CallEnds(next, after) ELSE {next}
          : t \in Draws }

\* C24: a call made for a state with coherence > 0.85 and reliability > 0.85,
\* with a technical candidate that holds no generic pattern, leaves
\* hallucinationRisk strictly lower than it was before the call.
C24_Recovery ==
  [][ ( /\ Invoked
        /\ enf'.iterations = 1
        /\ enf'.layerId \in DOMAIN loopStates
        /\ loopStates[enf'.layerId].beliefs.coherence * 100 > 85 * Scale
        /\ loopStates[enf'.layerId].beliefs.reliability * 100 > 85 * Scale
        /\ KeywordHits(technoKeywords, enf'.candidate) > 0
        /\ GenericMatches(enf'.candidate) = 0 ) =>
        \A end \in CallEnds(loopStates[enf'.layerId],
                            NewCall(0, enf'.layerId, enf'.layerName, enf'.input,
                                    enf'.candidate)) :
          end.beliefs.hallucinationRisk
            < loopStates[enf'.layerId].beliefs.hallucinationRisk ]_vars

\* C26: the iteration after whose belief update the veto condition holds ends
\* its call with the refusal, and an iteration that is not the first of its call
\* starts from beliefs on which the veto condition does not hold: a vetoed call
\* makes no further update, event, increment or refinement.
C26_VetoStopsCall ==
  [][ Invoked =>
        LET id == enf'.layerId
        IN  /\ maybeVeto(config, loopStates'[id].beliefs) =>
                 /\ enf'.status = "returned"
                 /\ enf'.vetoed
                 /\ HasVetoMarker(enf'.result)
            /\ enf'.iterations > 1 =>
                 /\ enf.status = "running"
                 /\ ~enf.vetoed
                 /\ ~maybeVeto(config, loopStates[id].beliefs) ]_vars

\* A call vetoed in its second iteration, while the layer had iterations left
\* and the text was still short of the character threshold.
C26_Witness ==
  /\ enf.status = "returned"
  /\ enf.vetoed
  /\ enf.iterations = 2
  /\ enf.layerId \in DOMAIN loopStates
  /\ loopStates[enf.layerId].iterationCount < maxIterations
  /\ ~meetsCharacterThreshold(config, loopStates[enf.layerId].reconciliation)

\* x brought into [0, 1], in units of 1/Scale.
Unit(x) == IF x < 0 THEN 0 ELSE IF x > Scale THEN Scale ELSE x

\* n hundredths, in units of 1/Scale.
Hundredths(n) == (n * Scale) \div 100

\* C27: one belief update takes coherence to clamp01(coherence + 0.03) if the
\* reconciled text's characterScore >= the coherence threshold and to
\* clamp01(coherence - 0.06) otherwise; reliability to clamp01(reliability - 0.08)
\* if the iterationCount before the increment is > 3 and to
\* clamp01(reliability + 0.01) otherwise; hallucinationRisk to
\* clamp01(risk + genericScore * 0.08 + (1 - coherence') * 0.06 - recovery) with
\* recovery 0.03 iff coherence' > 0.85 and reliability' > 0.85; and iterationCount
\* up by exactly 1.
C27_UpdateArithmetic ==
  [][ Invoked =>
        LET id == enf'.layerId
            old == StateBefore(id)
            new == loopStates'[id]
            score == calculateTechnoMysticalScore(config, new.reconciliation)
            kept == score.num * Scale >= config.beliefThresholds.coherence * score.den
            c == Unit(old.beliefs.coherence
                      + (IF kept THEN Hundredths(3) ELSE 0 - Hundredths(6)))
            r == Unit(old.beliefs.reliability
                      + (IF old.iterationCount > 3 THEN 0 - Hundredths(8) ELSE Hundredths(1)))
            recovery == IF c * 100 > 85 * Scale /\ r * 100 > 85 * Scale
                          THEN Hundredths(3) ELSE 0
            h == Unit(old.beliefs.hallucinationRisk
                      + (GenericMatches(new.reconciliation) * Hundredths(8)) \div 12
                      + ((Scale - c) * 6) \div 100
                      - recovery)
        IN  /\ new.beliefs = [ coherence |-> c, reliability |-> r, hallucinationRisk |-> h ]
            /\ new.iterationCount = old.iterationCount + 1 ]_vars

\* A layer left by an update with recovery: beliefs written to {0.9, 0.9, 0.15}
\* and a call that raised coherence and lowered the risk.
C27_Witness ==
  \E id \in DOMAIN loopStates :
    /\ writes > 0
    /\ loopStates[id].iterationCount > 1
    /\ loopStates[id].beliefs.coherence = Hundredths(93)
    /\ loopStates[id].beliefs.reliability = Hundredths(91)
    /\ loopStates[id].beliefs.hallucinationRisk < Hundredths(15)

\* The set of the events of a log.
EventSet(events) == { events[i] : i \in 1..Len(events) }

\* C28: a belief update appends one event for each line crossed and no other:
\* COHERENCE_DECAY iff characterScore < the coherence threshold (high iff the
\* updated coherence < 0.5), ITERATION_OVERFLOW iff the iterationCount before the
\* increment > maxIterations (medium), RELIABILITY_DEGRADATION iff the updated
\* reliability < the reliability threshold (low), HALLUCINATION_RISK iff the
\* updated risk > the risk threshold (high iff the risk > 0.8); low otherwise.
C28_FailureEvents ==
  [][ Invoked =>
        LET id == enf'.layerId
            old == StateBefore(id)
            new == loopStates'[id]
            score == calculateTechnoMysticalScore(config, new.reconciliation)
            thr == config.beliefThresholds
            expected ==
              (IF score.num * Scale < thr.coherence * score.den
                 THEN {[ code |-> "COHERENCE_DECAY",
                         severity |-> IF new.beliefs.coherence * 10 < 5 * Scale
                                        THEN "high" ELSE "low" ]}
                 ELSE {})
              \cup (IF old.iterationCount > maxIterations
                      THEN {[ code |-> "ITERATION_OVERFLOW", severity |-> "medium" ]}
                      ELSE {})
              \cup (IF new.beliefs.reliability < thr.reliability
                      THEN {[ code |-> "RELIABILITY_DEGRADATION", severity |-> "low" ]}
                      ELSE {})
              \cup (IF new.beliefs.hallucinationRisk > thr.hallucinationRisk
                      THEN {[ code |-> "HALLUCINATION_RISK",
                              severity |-> IF new.beliefs.hallucinationRisk * 10 > 8 * Scale
                                             THEN "high" ELSE "low" ]}
                      ELSE {})
        IN  /\ EventSet(Appended(id)) = expected
            /\ Len(Appended(id)) = Cardinality(expected)
            /\ Len(new.failures) = Len(old.failures) + Len(Appended(id)) ]_vars

\* A log that holds an overflow event, a high risk event and a high decay event.
C28_Witness ==
  \E id \in DOMAIN loopStates :
    /\ [ code |-> "ITERATION_OVERFLOW", severity |-> "medium" ]
         \in EventSet(loopStates[id].failures)
    /\ [ code |-> "HALLUCINATION_RISK", severity |-> "high" ]
         \in EventSet(loopStates[id].failures)
    /\ [ code |-> "COHERENCE_DECAY", severity |-> "high" ]
         \in EventSet(loopStates[id].failures)
    /\ [ code |-> "COHERENCE_DECAY", severity |-> "low" ]
         \in EventSet(loopStates[id].failures)

\* C30: a call that does not veto and whose candidate has characterScore >= 0.7
\* and genericScore <= 0.3 returns the candidate as it was given, whatever the
\* number of its iterations.
C30_PassThrough ==
  [][ ( /\ Invoked
        /\ enf'.status = "returned"
        /\ ~enf'.vetoed
        /\ ~ScoreBelow(calculateTechnoMysticalScore(config, enf'.candidate),
                       characterThreshold)
        /\ ~GenericAbove(enf'.candidate, 3) ) =>
        enf'.result = enf'.candidate ]_vars

\* A candidate with three generic patterns in it (genericScore 0.25) came back
\* unchanged after three iterations.
C30_Witness ==
  /\ enf.status = "returned"
  /\ ~enf.vetoed
  /\ enf.iterations = maxIterations
  /\ GenericMatches(enf.candidate) = 3
  /\ enf.result = enf.candidate

\* C29: while a layer keeps its state, every step (an enforce iteration, a
\* veto, a mode switch, a reset of another layer) leaves the events already in
\* its log in place and in order: the log before is a prefix of the log after.
C29_AppendOnly ==
  [][ \A id \in DOMAIN loopStates \cap DOMAIN loopStates' :
        /\ Len(loopStates'[id].failures) >= Len(loopStates[id].failures)
        /\ SubSeq(loopStates'[id].failures, 1, Len(loopStates[id].failures))
             = loopStates[id].failures ]_vars

\* The anchor's log holds events after the mode was switched and the sentinel's
\* state, called after it, was reset.
C29_Witness ==
  /\ "X" \in DOMAIN loopStates
  /\ Len(loopStates["X"].failures) > 1
  /\ "13" \notin DOMAIN loopStates
  /\ enf.status = "returned"
  /\ enf.layerId = "13"
  /\ toggles > 0

\* The run is between its start and its end.
Pending(r) == runs[r].pc \in {"awaiting", "enforcing", "enforced"}

\* The run waits for an external call that the service no longer answers.
Stalled(r) == runs[r].pc = "awaiting" /\ answered = MaxCalls

C31_CumulativeCount ==
  [][ /\ Invoked =>
           LET id == enf'.layerId
               old == StateBefore(id).iterationCount
               new == loopStates'[id].iterationCount
               c == new - enf'.iterations
           IN  /\ new = old + 1
               /\ c >= 0
               /\ enf'.iterations <= Max(1, 3 - c)
               /\ old >= 2 => enf'.status = "returned"
               /\ c >= 2 => enf'.iterations = 1 /\ enf'.status = "returned"
      /\ \A id \in DOMAIN loopStates \cap DOMAIN loopStates' :
           (~Invoked \/ enf'.layerId # id) =>
             loopStates'[id].iterationCount = loopStates[id].iterationCount ]_vars

\* A call made for a layer that had had three updates returned, unvetoed, after
\* one iteration, with a text that is short of the character threshold.
C31_Witness ==
  /\ enf.status = "returned"
  /\ ~enf.vetoed
  /\ enf.iterations = 1
  /\ enf.layerId \in DOMAIN loopStates
  /\ loopStates[enf.layerId].iterationCount = 4
  /\ ~meetsCharacterThreshold(config, enf.result)

\* C32: no layer state reached through enforce calls, resets and mode switches
\* has reliability above 0.74; so no belief update has both the updated
\* coherence and the updated reliability above 0.85, and none subtracts the
\* recovery of 0.03: the risk an update leaves is the risk before plus
\* genericScore * 0.08 plus (1 - coherence') * 0.06, clamped.
C32_ReliabilityCeiling ==
  /\ [] ( \A id \in DOMAIN loopStates :
            loopStates[id].beliefs.reliability <= Hundredths(74) )
  /\ [][ Invoked =>
           LET old == StateBefore(enf'.layerId)
               new == loopStates'[enf'.layerId]
           IN  /\ ~( /\ new.beliefs.coherence * 100 > 85 * Scale
                     /\ new.beliefs.reliability * 100 > 85 * Scale )
               /\ new.beliefs.hallucinationRisk =
                    Unit(old.beliefs.hallucinationRisk
                         + (GenericMatches(new.reconciliation) * Hundredths(8)) \div 12
                         + ((Scale - new.beliefs.coherence) * 6) \div 100) ]_vars

\* A layer has coherence above 0.85 after six updates on technical text: its
\* reliability, 0.74 after the fourth, has been lowered twice since, and it alone
\* keeps the recovery away.
C32_Witness ==
  \E id \in DOMAIN loopStates :
    /\ loopStates[id].iterationCount = 6
    /\ loopStates[id].beliefs.coherence * 100 > 85 * Scale
    /\ loopStates[id].beliefs.reliability = Hundredths(74) - 2 * Hundredths(8)

\* C33: while a layer keeps its state, no step lowers its hallucinationRisk:
\* every belief update made by an enforce call, on any text and under either
\* profile, leaves a risk >= the risk before it (the first update of a state,
\* >= the 0.2 it is created with), and no other step changes the risk.
C33_RiskNeverDecreases ==
  [][ /\ Invoked =>
           loopStates'[enf'.layerId].beliefs.hallucinationRisk
             >= StateBefore(enf'.layerId).beliefs.hallucinationRisk
      /\ \A id \in DOMAIN loopStates \cap DOMAIN loopStates' :
           loopStates'[id].beliefs.hallucinationRisk
             >= loopStates[id].beliefs.hallucinationRisk ]_vars

\* The best case: a layer whose coherence has reached 1 on technical text, and
\* whose risk has stayed within the threshold, but above the 0.2 it began with.
C33_Witness ==
  \E id \in DOMAIN loopStates :
    /\ loopStates[id].beliefs.coherence = Scale
    /\ loopStates[id].beliefs.hallucinationRisk > Hundredths(20)
    /\ loopStates[id].beliefs.hallucinationRisk <= config.beliefThresholds.hallucinationRisk
    /\ enf.status = "returned"
    /\ ~enf.vetoed

\* C34: an update made at a pre-increment iterationCount > 3 (the fifth update
\* of a layer state and every later one) logs ITERATION_OVERFLOW and takes
\* reliability to clamp01(reliability - 0.08), whatever the text; an update
\* before that logs none and adds 0.01.  So a layer that has overflowed and is
\* called again and again comes to reliability 0, unless it is reset, and then
\* stays at 0 while it keeps its state.
C34_OverflowPermanent ==
  /\ [][ Invoked =>
           LET id == enf'.layerId
               old == StateBefore(id)
               new == loopStates'[id]
               logged == \E i \in 1..Len(Appended(id)) :
                           Appended(id)[i].code = "ITERATION_OVERFLOW"
           IN  IF old.iterationCount > 3
                 THEN /\ logged
                      /\ new.beliefs.reliability = Unit(old.beliefs.reliability - Hundredths(8))
                 ELSE /\ ~logged
                      /\ new.beliefs.reliability = old.beliefs.reliability + Hundredths(1) ]_vars
  /\ \A l \in DirectLayers :
       (l[1] \in DOMAIN loopStates /\ loopStates[l[1]].iterationCount > 3)
         ~> (l[1] \notin DOMAIN loopStates \/ loopStates[l[1]].beliefs.reliability = 0)
  /\ [][ \A id \in DOMAIN loopStates \cap DOMAIN loopStates' :
           (loopStates[id].iterationCount > 3 /\ loopStates[id].beliefs.reliability = 0) =>
             loopStates'[id].beliefs.reliability = 0 ]_vars

\* A layer called again and again with technical text stands at reliability 0
\* after an update that found it at 0 already.
C34_Witness ==
  /\ enf.status = "returned"
  /\ enf.candidate = TechnicalReply
  /\ enf.layerId \in DOMAIN loopStates
  /\ loopStates[enf.layerId].iterationCount = 15
  /\ loopStates[enf.layerId].beliefs.reliability = 0
  /\ Cardinality(EventsOf(loopStates[enf.layerId].failures, "ITERATION_OVERFLOW")) = 11

\* C35: while mystical mode is enabled, every belief update, of whichever layer
\* and on whatever text, appends a RELIABILITY_DEGRADATION event (one, of
\* severity low): the updated reliability is at most 0.74, below the mystical
\* reliability threshold 0.75.
C35_MysticalAlwaysDegraded ==
  [][ (Invoked /\ mysticalMode) =>
        LET id == enf'.layerId
        IN  /\ loopStates'[id].beliefs.reliability < config.beliefThresholds.reliability
            /\ config.beliefThresholds.reliability = Hundredths(75)
            /\ Cardinality(EventsOf(Appended(id), "RELIABILITY_DEGRADATION")) = 1
            /\ \A i \in EventsOf(Appended(id), "RELIABILITY_DEGRADATION") :
                 Appended(id)[i].severity = "low" ]_vars

\* In mystical mode a layer's fourth update, on technical text, took its
\* reliability to 0.74, the highest there is, and that event is all it logged.
C35_Witness ==
  /\ mysticalMode
  /\ \E id \in DOMAIN loopStates :
       /\ loopStates[id].iterationCount = 4
       /\ loopStates[id].beliefs.reliability = Hundredths(74)
       /\ Codes(loopStates[id].failures) = [ i \in 1..4 |-> "RELIABILITY_DEGRADATION" ]

\* C36: when an invocation returns a veto, the layer's failure log holds a
\* HALLUCINATION_RISK or a COHERENCE_DECAY event; and when the risk it leaves is
\* above the risk threshold, that same invocation has appended a
\* HALLUCINATION_RISK event.
C36_VetoExplained ==
  [][ (Invoked /\ enf'.status = "returned" /\ enf'.vetoed) =>
        LET id == enf'.layerId
            log == loopStates'[id].failures
        IN  /\ EventsOf(log, "HALLUCINATION_RISK") \cup EventsOf(log, "COHERENCE_DECAY") # {}
            /\ loopStates'[id].beliefs.hallucinationRisk
                   > config.beliefThresholds.hallucinationRisk =>
                 EventsOf(Appended(id), "HALLUCINATION_RISK") # {} ]_vars

\* A veto under the standard profile with the risk within the threshold all
\* along: only decay events explain the refusal.
C36_Witness ==
  /\ enf.status = "returned"
  /\ enf.vetoed
  /\ ~mysticalMode
  /\ toggles = 0
  /\ enf.layerId \in DOMAIN loopStates
  /\ EventsOf(loopStates[enf.layerId].failures, "HALLUCINATION_RISK") = {}
  /\ EventsOf(loopStates[enf.layerId].failures, "COHERENCE_DECAY") # {}

\* C37: an invocation of enforceLoop for layer id A and a resetLoopState(A)
\* leave every other layer id B as it was: B has a state after the step exactly
\* if it had one before, and that state (beliefs, iterationCount, failures and
\* the rest) is unchanged.
C37_LayersIsolated ==
  [][ \A a \in TwoLayers, b \in TwoLayers :
        ( /\ a[1] # b[1]
          /\ \/ Invoked /\ enf'.layerId = a[1]
             \/ resetLoopState(a[1]) ) =>
          /\ b[1] \in DOMAIN loopStates' <=> b[1] \in DOMAIN loopStates
          /\ b[1] \in DOMAIN loopStates => loopStates'[b[1]] = loopStates[b[1]] ]_vars

\* The sentinel's call has been vetoed while the anchor holds the state of one
\* clean update: beliefs {0.73, 0.71, 0.2162} and an empty log.
C37_Witness ==
  /\ enf.status = "returned"
  /\ enf.vetoed
  /\ enf.layerId = "13"
  /\ "X" \in DOMAIN loopStates
  /\ loopStates["X"].iterationCount = 1
  /\ loopStates["X"].failures = << >>
  /\ loopStates["X"].beliefs =
       [ coherence |-> Hundredths(73), reliability |-> Hundredths(71),
         hallucinationRisk |-> Hundredths(20) + (27 * Scale * 6) \div 10000 ]

\* The step in which the external call of run r's current layer fails.
CallFailed(r) ==
  /\ runs[r].pc = "awaiting"
  /\ answered' = answered + 1
  /\ runs'[r].attempts[runs[r].index].outcome = "failed"

\* C38: the step in which a layer's external call fails makes no enforceLoop
\* call and changes no LoopState: the failed layer's state (or its absence) and
\* the states that earlier layers of the run left are what they were, whether
\* the run goes on or, on the terminal layer, aborts.
C38_FailedCallLeavesBeliefs ==
  [][ \A r \in RunIds :
        CallFailed(r) =>
          /\ loopStates' = loopStates
          /\ enf' = enf
          /\ runs'[r].pc \in {"awaiting", "returned", "thrown"}
          /\ runs'[r].pc = "thrown" <=> runs[r].layers[runs[r].index].id = "X" ]_vars

\* A run aborted at the terminal layer, whose call failed: the anchor has no
\* state, and the sentinel keeps the state its call of this run left.
C38_Witness ==
  \E r \in RunIds :
    /\ runs[r].pc = "thrown"
    /\ started = 1
    /\ runs[r].attempts[1].outcome = "returned"
    /\ runs[r].attempts[2].outcome = "failed"
    /\ "X" \notin DOMAIN loopStates
    /\ "13" \in DOMAIN loopStates
    /\ loopStates["13"].iterationCount >= 1

\* C39: whatever the layerOverrides, the layers a run executes have the
\* configured ids, in the configured order: so a failure of the call of the
\* configured terminal layer "X" ends the run by throwing, and the enforceLoop
\* call a run makes for its current layer is made on that layer's configured id.
C39_IdsPreserved ==
  \A r \in RunIds :
    runs[r].pc # "idle" =>
      /\ \A i \in 1..Len(runs[r].layers) : runs[r].layers[i].id = ConfiguredLayers[i].id
      /\ \A i \in 1..Len(runs[r].attempts) :
           (runs[r].attempts[i].outcome = "failed" /\ ConfiguredLayers[i].id = "X") =>
             runs[r].pc = "thrown"
      /\ (enf.status = "running" /\ enf.caller = r) =>
           enf.layerId = ConfiguredLayers[runs[r].index].id

\* The candidate of the invocation that the step makes: the text the call was
\* given, or the reconciled text the iteration before passed on.
IterationCandidate == IF enf.status = "running" THEN enf.currentOutput ELSE enf'.candidate

\* C40: an iteration whose candidate reconciliation passes through unchanged
\* (characterScore >= 0.7 and genericScore <= 0.3) is the last of its call: the
\* call returns, and makes no further belief update on the same text.
C40_PassThroughEndsCall ==
  [][ ( /\ Invoked
        /\ ~ScoreBelow(calculateTechnoMysticalScore(config, IterationCandidate),
                       characterThreshold)
        /\ ~GenericAbove(IterationCandidate, 3) ) =>
        /\ loopStates'[enf'.layerId].reconciliation = IterationCandidate
        /\ enf'.status = "returned" ]_vars

====
